---- MODULE Spec2Model ----
(***************************************************************************)
(* Photo lifecycle and batch deletion engine of the user service.          *)
(*                                                                         *)
(* The record store (the User table) and the object store (the photo       *)
(* bucket) are shared state; every handler is a process over them.         *)
(*   SpecBatch   batch-delete/app.py: handle_batch_deletion and its tasks  *)
(*   SpecUpload  photo-upload/app.py: lambda_handler and its cleanup       *)
(*   SpecPhotoDelete  photo-delete/app.py: lambda_handler                  *)
(*   SpecRefresh      photo-refresh/app.py: lambda_handler                 *)
(*   SpecUserDelete   user-delete/app.py: handle_user_deletion             *)
(*   SpecService      any one of the handlers above                        *)
(*   SpecDerive       photo-upload/app.py: create_image_versions           *)
(*   SpecPool         batch-delete/app.py: the pool of process_batch_deletions *)
(***************************************************************************)
EXTENDS Integers, Sequences, FiniteSets, TLC

VARIABLES
    users,                  \* User table: owner id -> record (exists flag + asset fields)
    store,                  \* photo bucket: the set of object keys present
    s3calls,                \* object-store calls issued, per acting owner and operation
    dbcalls,                \* record-store calls issued: get / save / delete
    req,                    \* batch: the inbound event (principal, body, remaining time)
    bpc,                    \* batch: handler position
    unique_user_ids,        \* batch: deduplicated ids
    valid_users,            \* batch: validation_results['valid_users']
    validation_errors,      \* batch: validation_results['errors']
    task,                   \* batch: one deletion task per owner
    successful_deletions,   \* batch: deletion_results['successful_deletions']
    errors,                 \* batch: deletion_results['errors']
    response,               \* batch: the response returned
    remaining,              \* batch: context.get_remaining_time_in_millis()
    up,                     \* upload: the locals of each invocation of the handler
    nonce,                  \* upload: the next timestamp/uuid pair to be minted
    pdel,                   \* photo delete: the locals of each invocation of the handler
    pref,                   \* photo refresh: the locals of the invocation
    udel,                   \* user delete: the locals of the invocation
    img,                    \* derivation: the image of create_image_versions and its versions
    pool,                   \* batch: the executor of process_batch_deletions and its futures
    faults                  \* store failures injected so far

vars == <<users, store, s3calls, dbcalls, req, bpc, unique_user_ids, valid_users,
          validation_errors, task, successful_deletions, errors, response,
          remaining, up, nonce, pdel, pref, udel, img, pool, faults>>

handlerVars == <<pdel, pref, udel>>

batchVars == <<s3calls, dbcalls, req, bpc, unique_user_ids, valid_users, validation_errors,
               task, successful_deletions, errors, response, remaining>>

---------------------------------------------------------------------------
(* Bounds of the model *)

MaxListLen == 2         \* longest explicit user_ids list (besides the oversize ones)
MaxFaults == 1          \* store failures (calls raising, keys refused) per run
MaxSide == 4            \* largest of the small image widths and heights
MaxValid == 6           \* most valid users of a batch handed to the worker pool

(* Program constants *)

MAX_BATCH_SIZE == 50
MAX_CONCURRENT_DELETIONS == 5
INDIVIDUAL_DELETE_TIMEOUT == 30
SAFETY_BUFFER_MS == 5000

---------------------------------------------------------------------------
(* Shared data *)

Owners == {"u1", "u2", "u3"}
Versions == {"thumbnail", "standard", "high_res"}
None == <<>>
Unhashable == "[unhashable]"
NoSub == ""

\* users/{user_id}/{version}_{timestamp}_{unique_id}.jpg
MakeKey(user_id, version_name, stamp) == <<user_id, version_name, stamp>>

\* f"https://{bucket}.s3.amazonaws.com/{filename}"
PublicUrl(key) == <<"s3.amazonaws.com", key, "">>

\* A nickname is a name in some casing; nickname.lower() gives the lower-case one
Lower(nickname) == <<nickname[1], "lower">>

NickOf(o) == <<o, "lower">>

NoRecord ==
    [exists |-> FALSE, nickname |-> None, nickname_normalized |-> None,
     thumbnail_url |-> None, standard_s3_key |-> None,
     high_res_s3_key |-> None, image_url |-> None]

EmptyRecord(o) ==
    [NoRecord EXCEPT !.exists = TRUE, !.nickname = NickOf(o),
                     !.nickname_normalized = NickOf(o)]

FullRecord(o, n) ==
    [exists |-> TRUE, nickname |-> NickOf(o), nickname_normalized |-> NickOf(o),
     thumbnail_url |-> PublicUrl(MakeKey(o, "thumbnail", n)),
     standard_s3_key |-> MakeKey(o, "standard", n),
     high_res_s3_key |-> MakeKey(o, "high_res", n),
     image_url |-> PublicUrl(MakeKey(o, "thumbnail", n))]

UploadKeys(o, n) == {MakeKey(o, v, n) : v \in Versions}

\* bool(user.thumbnail_url or user.standard_s3_key or user.high_res_s3_key or user.image_url)
HasPhotos(u) ==
    \/ u.thumbnail_url # None
    \/ u.standard_s3_key # None
    \/ u.high_res_s3_key # None
    \/ u.image_url # None

\* Objects under the prefix users/{user_id}/
UnderPrefix(objects, user_id) == {k \in objects : k[1] = user_id}

NoCalls == [list |-> 0, bulk |-> 0, single |-> 0, put |-> 0]
TotalCalls(c) == c.list + c.bulk + c.single + c.put

BucketConfigured == TRUE

---------------------------------------------------------------------------
(* Batch deletion: the request *)

Pad(s, n) == s \o [i \in 1..n |-> s[Len(s)]]

ListsUpTo(S, n) == UNION {[1..k -> S] : k \in 0..n}

\* user_ids values: short lists, lists of MAX_BATCH_SIZE and MAX_BATCH_SIZE + 1
\* entries, lists holding an element that is not hashable (a JSON array or object),
\* and a list whose first id comes again after another one
IdLists ==
    ListsUpTo(Owners, MaxListLen)
        \cup {Pad(<<o>>, MAX_BATCH_SIZE - 1) : o \in {"u1"}}
        \cup {Pad(<<o>>, MAX_BATCH_SIZE) : o \in {"u1"}}
        \cup {<<Unhashable>>, <<"u1", Unhashable>>}
        \cup {<<"u2", "u1", "u2">>}

BatchRequest(sub, body, kind, ids, confirm, test_mode) ==
    [sub |-> sub, body |-> body, ids_kind |-> kind, user_ids |-> ids,
     confirm |-> confirm, test_mode |-> test_mode]

BatchRequests ==
    {BatchRequest(NoSub, "object", "list", <<"u1">>, TRUE, FALSE)}
        \cup {BatchRequest("u1", b, "absent", <<>>, FALSE, FALSE) :
                b \in {"missing", "badjson", "nonobject"}}
        \cup {BatchRequest("u1", "object", k, <<>>, c, FALSE) :
                k \in {"absent", "notlist"}, c \in BOOLEAN}
        \cup {BatchRequest("u1", "object", "list", ids, c, t) :
                ids \in IdLists, c \in BOOLEAN, t \in BOOLEAN}

Resp(status, kind) ==
    [status |-> status, kind |-> kind, requested_count |-> 0, successful_count |-> 0,
     failed_count |-> 0, errors |-> <<>>]

NoResponse == Resp(0, "none")

\* (variant: no id is removed)
DedupKeepsAll(s) == s

\* list(dict.fromkeys(user_ids)): first occurrence of each id, in order
Dedup(s) ==
    LET first == {i \in 1..Len(s) : \A j \in 1..(i - 1) : s[j] # s[i]}
        rank(i) == Cardinality({j \in first : j <= i})
    IN  [k \in 1..Cardinality(first) |-> s[CHOOSE i \in first : rank(i) = k]]

\* The request-shape checks of handle_batch_deletion, in the code's order; an
\* exception raised on the way reaches the handler's outer except (500).
ShapeCheck(r) ==
    IF r.sub = NoSub THEN Resp(401, "Invalid authentication context")
    ELSE IF r.body = "missing" THEN Resp(400, "Request body is required")
    ELSE IF r.body = "badjson" THEN Resp(400, "Invalid JSON in request body")
    ELSE IF r.body = "nonobject" THEN Resp(500, "Internal server error during batch deletion")
    ELSE IF r.ids_kind = "notlist" THEN Resp(400, "user_ids must be an array")
    ELSE IF Len(r.user_ids) = 0 THEN Resp(400, "user_ids array cannot be empty")
    ELSE IF Len(r.user_ids) > MAX_BATCH_SIZE THEN Resp(400, "Batch size exceeds maximum limit")
    ELSE IF \E i \in 1..Len(r.user_ids) : r.user_ids[i] = Unhashable
         THEN Resp(500, "Internal server error during batch deletion")
    ELSE IF ~r.confirm THEN Resp(400, "Batch deletion requires confirmation")
    ELSE NoResponse

---------------------------------------------------------------------------
(* Batch deletion: validation *)

\* One iteration of validate_batch_users' loop: the verdict for one id.
\* lookup_raises: User.get raised something other than DoesNotExist.
\* (variant: the ownership check is left out)
ClassifyUserNoOwnerCheck(user_id, requesting_user_id, test_mode, lookup_raises, u) ==
    IF lookup_raises THEN "VALIDATION_ERROR"
    ELSE IF ~u.exists THEN "USER_NOT_FOUND"
    ELSE "valid"

ClassifyUser(user_id, requesting_user_id, test_mode, lookup_raises, u) ==
    IF lookup_raises THEN "VALIDATION_ERROR"
    ELSE IF ~u.exists THEN "USER_NOT_FOUND"
    ELSE IF ~test_mode /\ user_id # requesting_user_id THEN "UNAUTHORIZED_DELETION"
    ELSE "valid"

\* (variant: the loop does not `continue` after an error, so the id is appended to
\* valid_users as well)
ValidateBatchUsersNoContinue(user_ids, requesting_user_id, test_mode, raising, table) ==
    LET verdict(i) == ClassifyUser(user_ids[i], requesting_user_id, test_mode,
                                   user_ids[i] \in raising, table[user_ids[i]])
        entry(i) == [user_id |-> user_ids[i], has_photos |-> HasPhotos(table[user_ids[i]])]
        V[i \in 0..Len(user_ids)] ==
            IF i = 0 THEN [valid_users |-> <<>>, errors |-> <<>>]
            ELSE IF verdict(i) = "valid"
                 THEN [V[i - 1] EXCEPT !.valid_users = Append(@, entry(i))]
                 ELSE IF verdict(i) = "UNAUTHORIZED_DELETION"
                 THEN [valid_users |-> Append(V[i - 1].valid_users, entry(i)),
                       errors |-> Append(V[i - 1].errors,
                                         [user_id |-> user_ids[i], error_code |-> verdict(i)])]
                 ELSE [V[i - 1] EXCEPT !.errors =
                          Append(@, [user_id |-> user_ids[i], error_code |-> verdict(i)])]
    IN  V[Len(user_ids)]

ValidateBatchUsers(user_ids, requesting_user_id, test_mode, raising, table) ==
    LET verdict(i) == ClassifyUser(user_ids[i], requesting_user_id, test_mode,
                                   user_ids[i] \in raising, table[user_ids[i]])
        V[i \in 0..Len(user_ids)] ==
            IF i = 0 THEN [valid_users |-> <<>>, errors |-> <<>>]
            ELSE IF verdict(i) = "valid"
                 THEN [V[i - 1] EXCEPT !.valid_users =
                          Append(@, [user_id |-> user_ids[i],
                                     has_photos |-> HasPhotos(table[user_ids[i]])])]
                 ELSE [V[i - 1] EXCEPT !.errors =
                          Append(@, [user_id |-> user_ids[i], error_code |-> verdict(i)])]
    IN  V[Len(user_ids)]

SeqRange(s) == {s[i] : i \in 1..Len(s)}

FaultsLeft == MaxFaults - faults

LookupFaultSets(ids) ==
    {G \in SUBSET SeqRange(ids) : Cardinality(G) <= FaultsLeft}

\* (variant: the handler never takes the early return)
NoValidUsersNever(vr) == FALSE

\* if not validation_results['valid_users']
NoValidUsers(vr) == vr.valid_users = <<>>

\* cleanup_faults: the failures the task's object cleanup met
NoTask ==
    [pc |-> "none", has_photos |-> FALSE, success |-> FALSE, error_code |-> "",
     photos_deleted |-> 0, cleanup_faults |-> 0, elapsed |-> 0]

QueuedTask(has_photos) == [NoTask EXCEPT !.pc = "queued", !.has_photos = has_photos]

\* handle_batch_deletion up to the submission of the deletion tasks
HandleBatchDeletion ==
    /\ bpc = "received"
    /\ IF ShapeCheck(req) # NoResponse
       THEN /\ response' = ShapeCheck(req)
            /\ bpc' = "done"
            /\ UNCHANGED <<unique_user_ids, valid_users, validation_errors, task, dbcalls,
                           faults>>
       ELSE \E raising \in LookupFaultSets(Dedup(req.user_ids)) :
            LET uniq == Dedup(req.user_ids)
                vr == ValidateBatchUsers(uniq, req.sub, req.test_mode, raising, users)
            IN  /\ unique_user_ids' = uniq
                /\ valid_users' = vr.valid_users
                /\ validation_errors' = vr.errors
                /\ dbcalls' = [dbcalls EXCEPT !.get = @ + Len(uniq)]
                /\ faults' = faults + Cardinality(raising)
                /\ IF NoValidUsers(vr)
                   THEN /\ response' = [Resp(400, "No valid users to delete") EXCEPT
                                            !.requested_count = Len(uniq),
                                            !.errors = vr.errors]
                        /\ bpc' = "done"
                        /\ task' = task
                   ELSE /\ response' = response
                        /\ bpc' = "executing"
                        /\ task' = [o \in Owners |->
                                      IF \E i \in 1..Len(vr.valid_users) :
                                            vr.valid_users[i].user_id = o
                                      THEN QueuedTask((CHOOSE v \in SeqRange(vr.valid_users) :
                                                          v.user_id = o).has_photos)
                                      ELSE NoTask]
    /\ UNCHANGED <<img, pool, pdel, pref, udel, up, nonce, users, store, s3calls, req, successful_deletions, errors,
                   remaining>>

---------------------------------------------------------------------------
(* Batch deletion: one deletion task (delete_single_user_with_timeout) *)

\* (variant: the comparison is <=)
TimeoutRiskInclusive(remaining_ms) == remaining_ms <= SAFETY_BUFFER_MS

\* context.get_remaining_time_in_millis() < 5000
TimeoutRisk(remaining_ms) == remaining_ms < SAFETY_BUFFER_MS

\* Ways one cleanup may fail within the failures left: the listing raises, or the
\* bulk delete raises and/or some keys are refused.
CleanupFaults(objects) ==
    {f \in [list_raises : BOOLEAN, bulk_raises : BOOLEAN, bad : SUBSET objects] :
        /\ f.list_raises => (~f.bulk_raises /\ f.bad = {})
        /\ (IF f.list_raises THEN 1 ELSE 0) + (IF f.bulk_raises THEN 1 ELSE 0)
              + Cardinality(f.bad) <= FaultsLeft}

FaultCost(f) ==
    (IF f.list_raises THEN 1 ELSE 0) + (IF f.bulk_raises THEN 1 ELSE 0) + Cardinality(f.bad)

\* delete_user_photos(user_id): list the prefix (all pages), one delete_objects call
\* for the batch, single deletes only when the bulk call itself raises.
\*   list_raises  the listing raised: the outer except returns []
\*   bulk_raises  delete_objects raised ClientError: each key is deleted singly
\*   bad          keys the store refuses to delete (reported in Errors by the bulk
\*                call, or raising ClientError in the single delete)
\* Gives the keys deleted, the bucket afterwards and the calls issued.
DeleteUserPhotos(user_id, objects, list_raises, bulk_raises, bad) ==
    LET all_objects == UnderPrefix(objects, user_id)
        deleted == all_objects \ bad
    IN  IF list_raises \/ all_objects = {}
        THEN [deleted_files |-> {}, objects |-> objects,
              calls |-> [NoCalls EXCEPT !.list = 1]]
        ELSE IF bulk_raises
        THEN [deleted_files |-> deleted, objects |-> objects \ deleted,
              calls |-> [NoCalls EXCEPT !.list = 1, !.bulk = 1,
                                        !.single = Cardinality(all_objects)]]
        ELSE [deleted_files |-> deleted, objects |-> objects \ deleted,
              calls |-> [NoCalls EXCEPT !.list = 1, !.bulk = 1]]

AddCalls(a, b) ==
    [list |-> a.list + b.list, bulk |-> a.bulk + b.bulk,
     single |-> a.single + b.single, put |-> a.put + b.put]

Running == {o \in Owners : task[o].pc \in {"running", "cleaned"}}

\* Position of an owner in valid_users: the order the tasks were submitted in
SubmitIndex(o) == CHOOSE i \in 1..Len(valid_users) : valid_users[i].user_id = o

\* A pool worker takes the next submitted task and runs its time check.
TaskStart(o) ==
    /\ bpc = "executing"
    /\ task[o].pc = "queued"
    /\ \A p \in Owners : task[p].pc = "queued" => SubmitIndex(o) <= SubmitIndex(p)
    /\ Cardinality(Running) < MAX_CONCURRENT_DELETIONS
    /\ task' = [task EXCEPT ![o] =
                  IF TimeoutRisk(remaining)
                  THEN [@ EXCEPT !.pc = "finished", !.success = FALSE,
                                 !.error_code = "TIMEOUT_RISK"]
                  ELSE [@ EXCEPT !.pc = "running"]]
    /\ UNCHANGED <<img, pool, pdel, pref, udel, up, nonce, users, store, s3calls, dbcalls, req, bpc, unique_user_ids, valid_users,
                   validation_errors, successful_deletions, errors, response,
                   remaining, faults>>

\* if BUCKET_NAME and user_data['has_photos']: photos_deleted = delete_user_photos(user_id)
TaskCleanup(o) ==
    /\ bpc = "executing"
    /\ task[o].pc = "running"
    /\ IF BucketConfigured /\ task[o].has_photos
       THEN \E f \in CleanupFaults(UnderPrefix(store, o)) :
            LET r == DeleteUserPhotos(o, store, f.list_raises, f.bulk_raises, f.bad)
            IN  /\ store' = r.objects
                /\ faults' = faults + FaultCost(f)
                /\ s3calls' = [s3calls EXCEPT ![o] = AddCalls(@, r.calls)]
                /\ task' = [task EXCEPT ![o].pc = "cleaned",
                                        ![o].cleanup_faults = FaultCost(f),
                                        ![o].photos_deleted = Cardinality(r.deleted_files)]
       ELSE /\ task' = [task EXCEPT ![o].pc = "cleaned"]
            /\ UNCHANGED <<store, s3calls, faults>>
    /\ UNCHANGED <<img, pool, pdel, pref, udel, up, nonce, users, dbcalls, req, bpc, unique_user_ids, valid_users,
                   validation_errors, successful_deletions, errors, response,
                   remaining>>

\* (variant: a record that is no longer there counts as deleted)
RecordVerdictMissingIsDeleted(u, get_raises, delete_raises) ==
    IF get_raises \/ delete_raises THEN "DELETION_ERROR" ELSE "success"

\* What User.get followed by user.delete() comes to:
\*   get_raises / delete_raises: the record store raised something other than DoesNotExist
RecordVerdict(u, get_raises, delete_raises) ==
    IF get_raises THEN "DELETION_ERROR"
    ELSE IF ~u.exists THEN "USER_NOT_FOUND"
    ELSE IF delete_raises THEN "DELETION_ERROR"
    ELSE "success"

\* user = User.get(user_id); user.delete(); return the result
TaskRecord(o) ==
    /\ bpc = "executing"
    /\ task[o].pc = "cleaned"
    /\ \E get_raises \in BOOLEAN, delete_raises \in BOOLEAN :
         LET v == RecordVerdict(users[o], get_raises, delete_raises)
         IN  /\ ~(get_raises /\ delete_raises)
             /\ (get_raises \/ delete_raises) => FaultsLeft > 0
             /\ faults' = faults + (IF get_raises \/ delete_raises THEN 1 ELSE 0)
             /\ users' = [users EXCEPT ![o] = IF v = "success" THEN NoRecord ELSE @]
             /\ dbcalls' = [dbcalls EXCEPT
                               !.get = @ + 1,
                               !.delete = @ + (IF ~get_raises /\ users[o].exists
                                               THEN 1 ELSE 0)]
             /\ task' = [task EXCEPT ![o].pc = "finished",
                                     ![o].success = (v = "success"),
                                     ![o].error_code = IF v = "success" THEN "" ELSE v]
    /\ UNCHANGED <<img, pool, pdel, pref, udel, up, nonce, store, s3calls, req, bpc, unique_user_ids, valid_users,
                   validation_errors, successful_deletions, errors, response,
                   remaining>>

---------------------------------------------------------------------------
(* Batch deletion: collecting the results (process_batch_deletions) *)

\* for future in as_completed(future_to_user): result = future.result(timeout=...)
\* as_completed yields a future only once it is done, so result() returns at once.
Collect(o) ==
    /\ bpc = "executing"
    /\ task[o].pc = "finished"
    /\ IF task[o].success
       THEN /\ successful_deletions' =
                   Append(successful_deletions,
                          [user_id |-> o, photos_deleted |-> task[o].photos_deleted])
            /\ errors' = errors
       ELSE /\ errors' = Append(errors, [user_id |-> o, error_code |-> task[o].error_code])
            /\ successful_deletions' = successful_deletions
    /\ task' = [task EXCEPT ![o].pc = "collected"]
    /\ UNCHANGED <<img, pool, pdel, pref, udel, up, nonce, users, store, s3calls, dbcalls, req, bpc, unique_user_ids, valid_users,
                   validation_errors, response, remaining, faults>>

\* (variant: any success counts as full success)
StatusCodeNoPartial(successful_count, requested_count) ==
    IF successful_count > 0 THEN 200 ELSE 400

\* Determine response status code
StatusCode(successful_count, requested_count) ==
    IF successful_count = requested_count THEN 200
    ELSE IF successful_count > 0 THEN 207
    ELSE 400

\* (variant: the first failed task ends the batch with a server error)
CompleteAbortsOnError ==
    /\ bpc = "executing"
    /\ errors # <<>>
    /\ response' = Resp(500, "Internal server error during batch deletion")
    /\ bpc' = "done"
    /\ UNCHANGED <<img, pool, pdel, pref, udel, up, nonce, users, store, s3calls, dbcalls, req, unique_user_ids, valid_users,
                   validation_errors, task, successful_deletions, errors,
                   remaining, faults>>

\* The executor's with-block has ended: every task was collected
Complete ==
    /\ bpc = "executing"
    /\ \A o \in Owners : task[o].pc \in {"none", "collected"}
    /\ LET all_errors == validation_errors \o errors
           successful_count == Len(successful_deletions)
       IN  response' =
              [status |-> StatusCode(successful_count, Len(unique_user_ids)),
               kind |-> "Batch deletion completed",
               requested_count |-> Len(unique_user_ids),
               successful_count |-> successful_count,
               failed_count |-> Len(all_errors),
               errors |-> all_errors]
    /\ bpc' = "done"
    /\ UNCHANGED <<img, pool, pdel, pref, udel, up, nonce, users, store, s3calls, dbcalls, req, unique_user_ids, valid_users,
                   validation_errors, task, successful_deletions, errors,
                   remaining, faults>>

\* Wall-clock time passes while tasks are pending: the deadline comes closer and
\* every running task gets older. The clock moves in steps of ClockStep.
ClockStep == INDIVIDUAL_DELETE_TIMEOUT * 1000 + 1

Tick ==
    /\ bpc = "executing"
    /\ \E o \in Owners : task[o].pc \in {"queued", "running", "cleaned"}
    /\ remaining >= ClockStep
    /\ remaining' = remaining - ClockStep
    /\ task' = [o \in Owners |->
                  IF o \in Running THEN [task[o] EXCEPT !.elapsed = @ + ClockStep]
                  ELSE task[o]]
    /\ UNCHANGED <<img, pool, pdel, pref, udel, up, nonce, users, store, s3calls, dbcalls, req, bpc, unique_user_ids, valid_users,
                   validation_errors, successful_deletions, errors, response, faults>>

---------------------------------------------------------------------------
(* Photo upload: lambda_handler of photo-upload/app.py, one process per call *)

THUMBNAIL_SIZE == 150
STANDARD_SIZE == 320
HIGH_RES_SIZE == 800
MAX_IMAGE_SIZE == 5242880
MAX_KEYS == 100

Calls == {1, 2}

\* create_image_versions builds the versions in this order
VersionOrder == <<"thumbnail", "standard", "high_res">>

\* A URL is <<host form, path, query>>. Stored URLs are either of the bucket's
\* virtual-host form or of another form (a CDN or regional endpoint).
CdnUrl(key) == <<"cdn.example.com", key, "">>

\* 's3.amazonaws.com' in url
IsS3Url(url) == url[1] = "s3.amazonaws.com"

\* url.split('.s3.amazonaws.com/')[-1].split('?')[0]
UrlKey(url) == url[2]

\* A record from before the versioned layout: only image_url, in another URL form
LegacyRecord(o) ==
    [EmptyRecord(o) EXCEPT !.image_url = CdnUrl(MakeKey(o, "standard", 0))]

EmptyNick == <<"", "lower">>

\* not nickname
NoNickname(nickname) == nickname = None \/ nickname[1] = ""

UploadRequest(sub, user_id, body, image, size, decodable, nickname) ==
    [sub |-> sub, user_id |-> user_id, body |-> body, image |-> image, size |-> size,
     decodable |-> decodable, nickname |-> nickname]

NoUploadRequest == UploadRequest(NoSub, "", "missing", "absent", 0, FALSE, None)

\* body: "missing" | "badjson" | "json" | "raw" (isBase64Encoded)
\* image: "absent" | "badbase64" | "bytes"
UploadRequests ==
    {UploadRequest(s, "u1", "json", "bytes", MAX_IMAGE_SIZE, TRUE, None) :
        s \in {NoSub, "u2"}}
        \cup {UploadRequest("u1", "u1", b, "absent", 0, FALSE, None) :
                b \in {"missing", "badjson", "json"}}
        \cup {UploadRequest("u1", "u1", b, "badbase64", 0, FALSE, None) :
                b \in {"json", "raw"}}
        \cup {UploadRequest("u1", "u1", "json", "bytes", MAX_IMAGE_SIZE + 1, TRUE, None),
              UploadRequest("u1", "u1", "json", "bytes", MAX_IMAGE_SIZE, FALSE, None),
              UploadRequest("u1", "u1", "raw", "bytes", MAX_IMAGE_SIZE, TRUE, None)}
        \cup {UploadRequest("u1", "u1", "json", "bytes", MAX_IMAGE_SIZE, TRUE, n) :
                n \in {None, EmptyNick, <<"u1", "mixed">>, <<"u2", "mixed">>}}

NoCleanup ==
    [deleted_files |-> {}, deletion_errors |-> {}, files_scanned |-> 0, strategy |-> "none"]

UploadResp(status, kind) ==
    [status |-> status, kind |-> kind, versions_created |-> 0, cleanup |-> NoCleanup]

NoUploadResponse == UploadResp(0, "none")

\* lambda_handler's checks without the derivation check
UploadShapeCheckNoDerivationCheck(r) ==
    IF r.sub = NoSub THEN UploadResp(500, "Internal server error")
    ELSE IF r.sub # r.user_id THEN UploadResp(403, "Unauthorized to upload photo for this user")
    ELSE IF r.body = "missing" THEN UploadResp(400, "No image data provided")
    ELSE IF r.body = "badjson" THEN UploadResp(500, "Internal server error")
    ELSE IF r.body = "json" /\ r.image = "absent"
         THEN UploadResp(400, "No image data in request body")
    ELSE IF r.image = "badbase64" THEN UploadResp(500, "Internal server error")
    ELSE IF r.size > MAX_IMAGE_SIZE THEN UploadResp(400, "Image too large")
    ELSE NoUploadResponse

\* The checks of lambda_handler before the key names are made, in the code's order;
\* an exception on the way reaches the handler's outer except (500).
UploadShapeCheck(r) ==
    IF r.sub = NoSub THEN UploadResp(500, "Internal server error")
    ELSE IF r.sub # r.user_id THEN UploadResp(403, "Unauthorized to upload photo for this user")
    ELSE IF r.body = "missing" THEN UploadResp(400, "No image data provided")
    ELSE IF r.body = "badjson" THEN UploadResp(500, "Internal server error")
    ELSE IF r.body = "json" /\ r.image = "absent"
         THEN UploadResp(400, "No image data in request body")
    ELSE IF r.image = "badbase64" THEN UploadResp(500, "Internal server error")
    ELSE IF r.size > MAX_IMAGE_SIZE THEN UploadResp(400, "Image too large")
    ELSE IF ~r.decodable THEN UploadResp(400, "Failed to process image")
    ELSE NoUploadResponse

NoDbCalls == [get |-> 0, query |-> 0, save |-> 0]

\* raised: the cleanup calls of this invocation that raised ClientError
NoUpload ==
    [pc |-> "idle", req |-> NoUploadRequest, n |-> 0, puts |-> 0, user |-> NoRecord,
     cleanup |-> NoCleanup, orphaned |-> {}, raised |-> {}, calls |-> NoCalls,
     db |-> NoDbCalls, response |-> NoUploadResponse]

\* s3_keys of a call: the names made from its timestamp and unique_id
MintedKeys(c) == UploadKeys(up[c].req.user_id, up[c].n)

\* Requests of a call that arrives while another is in progress: the accepted JSON
\* requests (a rejected call touches nothing shared)
ConcurrentRequests ==
    {r \in UploadRequests :
        /\ UploadShapeCheck(r) = NoUploadResponse
        /\ r.body = "json"
        /\ r.nickname \in {None, <<"u1", "mixed">>}}

RequestsOf(c) == IF c = 1 THEN UploadRequests ELSE ConcurrentRequests

\* The handler from its entry to the making of the key names. The calls are taken
\* to arrive in the order of their numbers.
UploadBegin(c) ==
    /\ up[c].pc = "idle"
    /\ \A b \in Calls : b < c => up[b].pc # "idle"
    /\ \E r \in RequestsOf(c) :
         IF UploadShapeCheck(r) # NoUploadResponse
         THEN /\ up' = [up EXCEPT ![c].pc = "done", ![c].req = r,
                                  ![c].response = UploadShapeCheck(r)]
              /\ nonce' = nonce
         ELSE /\ up' = [up EXCEPT ![c].pc = "put", ![c].req = r, ![c].n = nonce]
              /\ nonce' = nonce + 1
    /\ UNCHANGED <<users, store, faults>>
    /\ UNCHANGED batchVars
    /\ UNCHANGED <<img, pool>>
    /\ UNCHANGED handlerVars

\* (variant: a failed put or presign is logged and the handler goes on to the record)
UploadPutFailureGoesOn(c) ==
    /\ up[c].pc = "put"
    /\ LET version_name == VersionOrder[up[c].puts + 1]
           filename == MakeKey(up[c].req.user_id, version_name, up[c].n)
       IN  \E failure \in {"none", "put", "presign"} :
             /\ failure # "none" => FaultsLeft > 0
             /\ failure = "presign" => version_name # "thumbnail"
             /\ faults' = faults + (IF failure = "none" THEN 0 ELSE 1)
             /\ store' = IF failure = "put" THEN store ELSE store \cup {filename}
             /\ up' = [up EXCEPT
                         ![c].calls.put = @ + 1,
                         ![c].puts = IF failure = "put" THEN @ ELSE @ + 1,
                         ![c].pc = IF failure # "none" THEN "get"
                                   ELSE IF up[c].puts + 1 = Len(VersionOrder) THEN "get"
                                   ELSE "put",
                         ![c].response = IF failure # "none"
                                         THEN UploadResp(500, "Failed to upload image")
                                         ELSE @]
    /\ UNCHANGED <<users, nonce>>
    /\ UNCHANGED batchVars
    /\ UNCHANGED <<img, pool>>
    /\ UNCHANGED handlerVars

\* One iteration of the upload loop: put_object, then the URL of the version.
\*   failure = "put": put_object raises ClientError
\*   failure = "presign": generate_presigned_url raises ClientError (not for thumbnail)
UploadPut(c) ==
    /\ up[c].pc = "put"
    /\ LET version_name == VersionOrder[up[c].puts + 1]
           filename == MakeKey(up[c].req.user_id, version_name, up[c].n)
       IN  \E failure \in {"none", "put", "presign"} :
             /\ failure # "none" => FaultsLeft > 0
             /\ failure = "presign" => version_name # "thumbnail"
             /\ faults' = faults + (IF failure = "none" THEN 0 ELSE 1)
             /\ store' = IF failure = "put" THEN store ELSE store \cup {filename}
             /\ up' = [up EXCEPT
                         ![c].calls.put = @ + 1,
                         ![c].puts = IF failure = "put" THEN @ ELSE @ + 1,
                         ![c].pc = IF failure # "none" THEN "done"
                                   ELSE IF up[c].puts + 1 = Len(VersionOrder) THEN "get"
                                   ELSE "put",
                         ![c].response = IF failure # "none"
                                         THEN UploadResp(500, "Failed to upload image")
                                         ELSE @]
    /\ UNCHANGED <<users, nonce>>
    /\ UNCHANGED batchVars
    /\ UNCHANGED <<img, pool>>
    /\ UNCHANGED handlerVars

\* (variant: the targeted cleanup is run whatever the record holds)
CleanupStrategyAlwaysTargeted(user) ==
    IF ~BucketConfigured THEN "none"
    ELSE "targeted"

\* The first lines of delete_user_photos_optimized: which strategy, given the record
CleanupStrategy(user) ==
    IF ~BucketConfigured THEN "none"
    ELSE IF ~(user.exists /\ HasPhotos(user)) THEN "skip_no_photos"
    ELSE "targeted"

AfterStrategy(strategy) == IF strategy = "targeted" THEN "known" ELSE "save"

\* user = User.get(user_id), and for a record found the start of its cleanup
UploadGetUser(c) ==
    /\ up[c].pc = "get"
    /\ \E get_raises \in BOOLEAN :
         /\ get_raises => FaultsLeft > 0
         /\ faults' = faults + (IF get_raises THEN 1 ELSE 0)
         /\ LET u == users[up[c].req.user_id]
                counted == [up EXCEPT ![c].db.get = @ + 1]
            IN  up' =
                  IF get_raises
                  THEN [counted EXCEPT ![c].pc = "done",
                                       ![c].response = UploadResp(500, "Internal server error")]
                  ELSE IF u.exists
                  THEN [counted EXCEPT ![c].user = u,
                                       ![c].cleanup.strategy = CleanupStrategy(u),
                                       ![c].pc = AfterStrategy(CleanupStrategy(u))]
                  ELSE IF NoNickname(up[c].req.nickname)
                  THEN [counted EXCEPT
                          ![c].pc = "done",
                          ![c].response =
                             UploadResp(400, "User not found. Please provide a nickname for first-time upload.")]
                  ELSE [counted EXCEPT ![c].pc = "nickname"]
    /\ UNCHANGED <<users, store, nonce>>
    /\ UNCHANGED batchVars
    /\ UNCHANGED <<img, pool>>
    /\ UNCHANGED handlerVars

\* User.get_by_nickname: the first record with that normalized nickname; None when
\* there is none or when the index query raises
GetByNickname(nickname, table, query_raises) ==
    IF query_raises THEN {}
    ELSE {o \in Owners : table[o].exists /\ table[o].nickname_normalized = Lower(nickname)}

\* The except User.DoesNotExist branch after the nickname is known to be given
UploadCheckNickname(c) ==
    /\ up[c].pc = "nickname"
    /\ \E query_raises \in BOOLEAN :
         /\ query_raises => FaultsLeft > 0
         /\ faults' = faults + (IF query_raises THEN 1 ELSE 0)
         /\ LET counted == [up EXCEPT ![c].db.query = @ + 1]
            IN  up' =
                  IF GetByNickname(up[c].req.nickname, users, query_raises) # {}
                  THEN [counted EXCEPT ![c].pc = "done",
                                       ![c].response = UploadResp(409, "Nickname already taken")]
                  ELSE [counted EXCEPT ![c].cleanup.strategy = CleanupStrategy(NoRecord),
                                       ![c].pc = AfterStrategy(CleanupStrategy(NoRecord))]
    /\ UNCHANGED <<users, store, nonce>>
    /\ UNCHANGED batchVars
    /\ UNCHANGED <<img, pool>>
    /\ UNCHANGED handlerVars

\* (variant: only the two key fields are taken, not the keys in the URLs)
KnownKeysNoUrls(user) ==
    (IF user.standard_s3_key # None THEN <<user.standard_s3_key>> ELSE <<>>)
        \o (IF user.high_res_s3_key # None THEN <<user.high_res_s3_key>> ELSE <<>>)

\* known_keys of delete_user_photos_optimized, in the code's order
KnownKeys(user) ==
    (IF user.standard_s3_key # None THEN <<user.standard_s3_key>> ELSE <<>>)
        \o (IF user.high_res_s3_key # None THEN <<user.high_res_s3_key>> ELSE <<>>)
        \o (IF user.thumbnail_url # None /\ IsS3Url(user.thumbnail_url)
            THEN <<UrlKey(user.thumbnail_url)>> ELSE <<>>)
        \o (IF /\ user.image_url # None
               /\ IsS3Url(user.image_url)
               /\ user.image_url # user.thumbnail_url
            THEN <<UrlKey(user.image_url)>> ELSE <<>>)

\* Keys the store may refuse to delete: the standard versions and the latest stray
Refusable(keys) == {k \in keys : k[2] = "standard" \/ k[3] = -1}

\* Ways one delete_objects call may fail within the failures left
BulkFaults(keys) ==
    {f \in [raises : BOOLEAN, bad : SUBSET Refusable(keys)] :
        (IF f.raises THEN 1 ELSE 0) + Cardinality(f.bad) <= FaultsLeft}

BulkCost(f) == (IF f.raises THEN 1 ELSE 0) + Cardinality(f.bad)

\* (variant: the known keys are not deleted before the scan)
UploadCleanupKnownSkipped(c) ==
    /\ up[c].pc = "known"
    /\ up' = [up EXCEPT ![c].pc = "scan"]
    /\ UNCHANGED <<users, store, nonce, faults>>
    /\ UNCHANGED batchVars
    /\ UNCHANGED <<img, pool>>
    /\ UNCHANGED handlerVars

\* Batch delete of the known keys; individual deletes when the call itself raises
UploadCleanupKnown(c) ==
    /\ up[c].pc = "known"
    /\ LET known_keys == KnownKeys(up[c].user)
           keys == SeqRange(known_keys)
       IN  IF known_keys = <<>>
           THEN /\ up' = [up EXCEPT ![c].pc = "scan"]
                /\ UNCHANGED <<store, faults>>
           ELSE \E f \in BulkFaults(keys) :
                  /\ faults' = faults + BulkCost(f)
                  /\ store' = store \ (keys \ f.bad)
                  /\ up' = [up EXCEPT
                              ![c].pc = "scan",
                              ![c].raised = IF f.raises THEN @ \cup {"known"} ELSE @,
                              ![c].calls.bulk = @ + 1,
                              ![c].calls.single = @ + (IF f.raises THEN Len(known_keys) ELSE 0),
                              ![c].cleanup.deleted_files = @ \cup (keys \ f.bad),
                              ![c].cleanup.deletion_errors = @ \cup f.bad,
                              ![c].cleanup.files_scanned =
                                  IF f.raises THEN Cardinality(keys \ f.bad)
                                  ELSE Len(known_keys)]
    /\ UNCHANGED <<users, nonce>>
    /\ UNCHANGED batchVars
    /\ UNCHANGED <<img, pool>>
    /\ UNCHANGED handlerVars

\* Key names sort as strings: by version name, then by timestamp
VersionRank(version_name) ==
    CASE version_name = "high_res" -> 1
      [] version_name = "standard" -> 2
      [] version_name = "thumbnail" -> 3

KeyLess(a, b) ==
    \/ VersionRank(a[2]) < VersionRank(b[2])
    \/ VersionRank(a[2]) = VersionRank(b[2]) /\ a[3] < b[3]

\* (variant: the listing follows the continuation to the last page)
ListEveryPage(objects, user_id) == UnderPrefix(objects, user_id)

\* list_objects_v2(Prefix=users/{user_id}/, MaxKeys=100): the first page only
ListPage(objects, user_id) ==
    LET all == UnderPrefix(objects, user_id)
    IN  {k \in all : Cardinality({j \in all : KeyLess(j, k)}) < MAX_KEYS}

\* The quick scan for orphaned files: one listing, the keys not already deleted
UploadCleanupScan(c) ==
    /\ up[c].pc = "scan"
    /\ \E list_raises \in BOOLEAN :
         /\ list_raises => FaultsLeft > 0
         /\ faults' = faults + (IF list_raises THEN 1 ELSE 0)
         /\ LET contents == ListPage(store, up[c].req.user_id)
                orphaned_keys == contents \ up[c].cleanup.deleted_files
                counted == [up EXCEPT
                              ![c].calls.list = @ + 1,
                              ![c].raised = IF list_raises THEN @ \cup {"list"} ELSE @]
            IN  up' = IF list_raises \/ orphaned_keys = {}
                      THEN [counted EXCEPT ![c].pc = "save"]
                      ELSE [counted EXCEPT ![c].pc = "orphans",
                                           ![c].orphaned = orphaned_keys]
    /\ UNCHANGED <<users, store, nonce>>
    /\ UNCHANGED batchVars
    /\ UNCHANGED <<img, pool>>
    /\ UNCHANGED handlerVars

\* Batch delete of the orphaned keys; a ClientError of the call is only printed
UploadCleanupOrphans(c) ==
    /\ up[c].pc = "orphans"
    /\ \E f \in BulkFaults(up[c].orphaned) :
         /\ f.raises => f.bad = {}
         /\ faults' = faults + BulkCost(f)
         /\ store' = IF f.raises THEN store ELSE store \ (up[c].orphaned \ f.bad)
         /\ up' = IF f.raises
                  THEN [up EXCEPT ![c].pc = "save", ![c].calls.bulk = @ + 1,
                                  ![c].raised = @ \cup {"orphans"}]
                  ELSE [up EXCEPT
                          ![c].pc = "save",
                          ![c].calls.bulk = @ + 1,
                          ![c].cleanup.deleted_files = @ \cup (up[c].orphaned \ f.bad),
                          ![c].cleanup.deletion_errors = @ \cup f.bad,
                          ![c].cleanup.files_scanned = @ + Cardinality(up[c].orphaned)]
    /\ UNCHANGED <<users, nonce>>
    /\ UNCHANGED batchVars
    /\ UNCHANGED <<img, pool>>
    /\ UNCHANGED handlerVars

\* (variant: the high-res key of the record read is kept)
SavedRecordKeepsHighRes(c) ==
    LET base == IF up[c].user.exists THEN up[c].user
                ELSE [NoRecord EXCEPT !.exists = TRUE,
                                      !.nickname = up[c].req.nickname,
                                      !.nickname_normalized = Lower(up[c].req.nickname)]
        thumbnail_url == PublicUrl(MakeKey(up[c].req.user_id, "thumbnail", up[c].n))
    IN  [base EXCEPT
           !.thumbnail_url = thumbnail_url,
           !.standard_s3_key = MakeKey(up[c].req.user_id, "standard", up[c].n),
           !.high_res_s3_key = IF base.high_res_s3_key # None THEN base.high_res_s3_key
                               ELSE MakeKey(up[c].req.user_id, "high_res", up[c].n),
           !.image_url = thumbnail_url]

\* The record the handler saves: the one read (or a new one) with the new fields
SavedRecord(c) ==
    LET base == IF up[c].user.exists THEN up[c].user
                ELSE [NoRecord EXCEPT !.exists = TRUE,
                                      !.nickname = up[c].req.nickname,
                                      !.nickname_normalized = Lower(up[c].req.nickname)]
        thumbnail_url == PublicUrl(MakeKey(up[c].req.user_id, "thumbnail", up[c].n))
    IN  [base EXCEPT
           !.thumbnail_url = thumbnail_url,
           !.standard_s3_key = MakeKey(up[c].req.user_id, "standard", up[c].n),
           !.high_res_s3_key = MakeKey(up[c].req.user_id, "high_res", up[c].n),
           !.image_url = thumbnail_url]

\* user.save() and the success response
UploadSave(c) ==
    /\ up[c].pc = "save"
    /\ \E save_raises \in BOOLEAN :
         /\ save_raises => FaultsLeft > 0
         /\ faults' = faults + (IF save_raises THEN 1 ELSE 0)
         /\ users' = IF save_raises THEN users
                     ELSE [users EXCEPT ![up[c].req.user_id] = SavedRecord(c)]
         /\ up' = [up EXCEPT
                     ![c].db.save = @ + 1,
                     ![c].pc = "done",
                     ![c].response =
                        IF save_raises THEN UploadResp(500, "Internal server error")
                        ELSE [status |-> 200, kind |-> "Photo uploaded successfully",
                              versions_created |-> Len(VersionOrder),
                              cleanup |-> up[c].cleanup]]
    /\ UNCHANGED <<store, nonce>>
    /\ UNCHANGED batchVars
    /\ UNCHANGED <<img, pool>>
    /\ UNCHANGED handlerVars

---------------------------------------------------------------------------
(* Photo delete: lambda_handler of photo-delete/app.py, one process per call *)

DeleteCalls == {1, 2}

\* pathParameters without userId
NoTarget == ""

AssetRequest(sub, target_user_id) == [sub |-> sub, target_user_id |-> target_user_id]

NoAssetRequest == AssetRequest(NoSub, NoTarget)

AssetRequests ==
    {AssetRequest(s, t) : s \in {NoSub, "u1", "u2"}, t \in {NoTarget, "u1"}}

\* A store call ends normally, raises ClientError (an error answer of the service) or
\* raises another exception (no answer: a timeout, a lost connection)
CallOutcomes == {"ok", "ClientError", "Exception"}

DeleteResp(status, kind) ==
    [status |-> status, kind |-> kind, deleted_files |-> {}, deletion_errors |-> {}]

NoDeleteResponse == DeleteResp(0, "none")

\* (variant: the ownership check is left out)
DeleteShapeCheckNoOwnerCheck(r) ==
    IF r.sub = NoSub THEN DeleteResp(500, "Internal server error")
    ELSE IF r.target_user_id = NoTarget THEN DeleteResp(400, "User ID is required")
    ELSE NoDeleteResponse

\* The checks of the handler before the record is read, in the code's order
DeleteShapeCheck(r) ==
    IF r.sub = NoSub THEN DeleteResp(500, "Internal server error")
    ELSE IF r.target_user_id = NoTarget THEN DeleteResp(400, "User ID is required")
    ELSE IF r.target_user_id # r.sub
         THEN DeleteResp(403, "Unauthorized: You can only delete your own photos")
    ELSE NoDeleteResponse

NoPhotoDelete ==
    [pc |-> "idle", req |-> NoAssetRequest, user |-> NoRecord, contents |-> {},
     deleted_files |-> {}, deletion_errors |-> {}, calls |-> NoCalls, db |-> NoDbCalls,
     response |-> NoDeleteResponse]

\* The handler from its entry to the has_photos check
PhotoDeleteBegin(d) ==
    /\ pdel[d].pc = "idle"
    /\ \A b \in DeleteCalls : b < d => pdel[b].pc # "idle"
    /\ \E r \in AssetRequests, get_raises \in BOOLEAN :
         LET u == users[r.target_user_id]
             started == [pdel EXCEPT ![d].req = r]
             read == [started EXCEPT ![d].db.get = @ + 1]
         IN  /\ get_raises => (DeleteShapeCheck(r) = NoDeleteResponse /\ FaultsLeft > 0)
             /\ faults' = faults + (IF get_raises THEN 1 ELSE 0)
             /\ pdel' =
                  IF DeleteShapeCheck(r) # NoDeleteResponse
                  THEN [started EXCEPT ![d].pc = "done", ![d].response = DeleteShapeCheck(r)]
                  ELSE IF get_raises
                  THEN [read EXCEPT ![d].pc = "done",
                                    ![d].response = DeleteResp(500, "Internal server error")]
                  ELSE IF ~u.exists
                  THEN [read EXCEPT ![d].pc = "done",
                                    ![d].response = DeleteResp(404, "User not found")]
                  ELSE IF ~HasPhotos(u)
                  THEN [read EXCEPT ![d].pc = "done", ![d].user = u,
                                    ![d].response = DeleteResp(200, "No photos to delete")]
                  ELSE [read EXCEPT ![d].user = u,
                                    ![d].pc = IF BucketConfigured THEN "list" ELSE "save"]
    /\ UNCHANGED <<users, store, up, nonce, pref, udel>>
    /\ UNCHANGED batchVars
    /\ UNCHANGED <<img, pool>>

\* list_objects_v2 on the owner's prefix (every page). A ClientError is printed and
\* the handler goes on to clear the record; another exception ends the handler.
PhotoDeleteList(d) ==
    /\ pdel[d].pc = "list"
    /\ \E outcome \in CallOutcomes :
         /\ outcome # "ok" => FaultsLeft > 0
         /\ faults' = faults + (IF outcome = "ok" THEN 0 ELSE 1)
         /\ LET contents == UnderPrefix(store, pdel[d].req.target_user_id)
                counted == [pdel EXCEPT ![d].calls.list = @ + 1]
            IN  pdel' =
                  IF outcome = "Exception"
                  THEN [counted EXCEPT ![d].pc = "done",
                                       ![d].response = DeleteResp(500, "Internal server error")]
                  ELSE IF outcome = "ClientError" \/ contents = {}
                  THEN [counted EXCEPT ![d].pc = "save"]
                  ELSE [counted EXCEPT ![d].pc = "delete", ![d].contents = contents]
    /\ UNCHANGED <<users, store, up, nonce, pref, udel>>
    /\ UNCHANGED batchVars
    /\ UNCHANGED <<img, pool>>

\* Ways the delete loop may fail within the failures left: keys whose delete_object
\* raises ClientError (bad), and a key at which another exception ends the handler
DeleteLoopFaults(keys) ==
    {f \in [bad : SUBSET Refusable(keys), abort_at : Refusable(keys) \cup {None}] :
        /\ f.abort_at \notin f.bad
        /\ Cardinality(f.bad) + (IF f.abort_at = None THEN 0 ELSE 1) <= FaultsLeft}

\* Keys the loop gets to: all of them, or those listed before the one it ends at
Attempted(keys, abort_at) ==
    IF abort_at = None THEN keys ELSE {k \in keys : KeyLess(k, abort_at)}

\* for obj in response['Contents']: delete_object, one key at a time
PhotoDeleteObjects(d) ==
    /\ pdel[d].pc = "delete"
    /\ \E f \in DeleteLoopFaults(pdel[d].contents) :
         LET attempted == Attempted(pdel[d].contents, f.abort_at)
             deleted == attempted \ f.bad
             counted == [pdel EXCEPT
                           ![d].calls.single =
                               @ + Cardinality(attempted) + (IF f.abort_at = None THEN 0 ELSE 1),
                           ![d].deleted_files = deleted,
                           ![d].deletion_errors = attempted \cap f.bad]
         IN  /\ faults' = faults + Cardinality(f.bad) + (IF f.abort_at = None THEN 0 ELSE 1)
             /\ store' = store \ deleted
             /\ pdel' =
                  IF f.abort_at = None
                  THEN [counted EXCEPT ![d].pc = "save"]
                  ELSE [counted EXCEPT ![d].pc = "done",
                                       ![d].response = DeleteResp(500, "Internal server error")]
    /\ UNCHANGED <<users, up, nonce, pref, udel>>
    /\ UNCHANGED batchVars
    /\ UNCHANGED <<img, pool>>

\* (variant: image_url is left as it was)
ClearedRecordKeepsImageUrl(user) ==
    [user EXCEPT !.thumbnail_url = None, !.standard_s3_key = None,
                 !.high_res_s3_key = None]

\* The record read, with its photo fields cleared
ClearedRecord(user) ==
    [user EXCEPT !.thumbnail_url = None, !.standard_s3_key = None,
                 !.high_res_s3_key = None, !.image_url = None]

\* user.save() and the success response
PhotoDeleteSave(d) ==
    /\ pdel[d].pc = "save"
    /\ \E save_raises \in BOOLEAN :
         /\ save_raises => FaultsLeft > 0
         /\ faults' = faults + (IF save_raises THEN 1 ELSE 0)
         /\ users' = IF save_raises THEN users
                     ELSE [users EXCEPT ![pdel[d].req.target_user_id] =
                              ClearedRecord(pdel[d].user)]
         /\ pdel' = [pdel EXCEPT
                       ![d].db.save = @ + 1,
                       ![d].pc = "done",
                       ![d].response =
                          IF save_raises THEN DeleteResp(500, "Internal server error")
                          ELSE [status |-> 200, kind |-> "Photos deleted successfully",
                                deleted_files |-> pdel[d].deleted_files,
                                deletion_errors |-> pdel[d].deletion_errors]]
    /\ UNCHANGED <<store, up, nonce, pref, udel>>
    /\ UNCHANGED batchVars
    /\ UNCHANGED <<img, pool>>

---------------------------------------------------------------------------
(* Photo refresh: lambda_handler of photo-refresh/app.py *)

RefreshResp(status, kind) ==
    [status |-> status, kind |-> kind, images |-> {}, errors |-> {}]

NoRefreshResponse == RefreshResp(0, "none")

\* The checks of the handler before the record is read, in the code's order
RefreshShapeCheck(r) ==
    IF r.sub = NoSub THEN RefreshResp(500, "Internal server error")
    ELSE IF r.target_user_id = NoTarget THEN RefreshResp(400, "User ID is required")
    ELSE IF r.target_user_id # r.sub
         THEN RefreshResp(403, "Unauthorized: You can only refresh your own photo URLs")
    ELSE NoRefreshResponse

NoRefresh ==
    [pc |-> "idle", req |-> NoAssetRequest, user |-> NoRecord, refreshed_urls |-> {},
     errors |-> {}, head |-> 0, db |-> NoDbCalls, response |-> NoRefreshResponse]

\* The handler from its entry to the thumbnail URL
RefreshBegin ==
    /\ pref.pc = "idle"
    /\ \E r \in AssetRequests, get_raises \in BOOLEAN :
         LET u == users[r.target_user_id]
             started == [pref EXCEPT !.req = r]
             read == [started EXCEPT !.db.get = @ + 1]
         IN  /\ get_raises => (RefreshShapeCheck(r) = NoRefreshResponse /\ FaultsLeft > 0)
             /\ faults' = faults + (IF get_raises THEN 1 ELSE 0)
             /\ pref' =
                  IF RefreshShapeCheck(r) # NoRefreshResponse
                  THEN [started EXCEPT !.pc = "done", !.response = RefreshShapeCheck(r)]
                  ELSE IF get_raises
                  THEN [read EXCEPT !.pc = "done",
                                    !.response = RefreshResp(500, "Internal server error")]
                  ELSE IF ~u.exists
                  THEN [read EXCEPT !.pc = "done",
                                    !.response = RefreshResp(404, "User not found")]
                  ELSE IF ~HasPhotos(u)
                  THEN [read EXCEPT !.pc = "done", !.user = u,
                                    !.response = RefreshResp(404, "No photos found for this user")]
                  ELSE [read EXCEPT !.user = u,
                                    !.pc = "standard",
                                    !.refreshed_urls =
                                        IF u.thumbnail_url # None THEN {"thumbnail"} ELSE {}]
    /\ UNCHANGED <<users, store, up, nonce, pdel, udel>>
    /\ UNCHANGED batchVars
    /\ UNCHANGED <<img, pool>>

\* The key of a protected version in the record read
VersionKey(user, version) ==
    IF version = "standard" THEN user.standard_s3_key ELSE user.high_res_s3_key

\* (variant: the high-res version is not probed)
AfterProbeSkipsHighRes(version) == "respond"

AfterProbe(version) == IF version = "standard" THEN "high_res" ELSE "respond"

\* One protected version: head_object, then the presigned URL.
\*   "ok"           the store answers; a key that is not there is a ClientError (404)
\*   "ClientError"  head_object or the signing raises ClientError for another reason
\*   "Exception"    another exception: the handler's outer except
RefreshProbe(version) ==
    /\ pref.pc = version
    /\ IF VersionKey(pref.user, version) = None \/ ~BucketConfigured
       THEN /\ pref' = [pref EXCEPT !.pc = AfterProbe(version)]
            /\ faults' = faults
       ELSE \E outcome \in CallOutcomes :
              /\ outcome # "ok" => FaultsLeft > 0
              /\ faults' = faults + (IF outcome = "ok" THEN 0 ELSE 1)
              /\ LET key == VersionKey(pref.user, version)
                     counted == [pref EXCEPT !.head = @ + 1]
                 IN  pref' =
                       IF outcome = "Exception"
                       THEN [counted EXCEPT !.pc = "done",
                                            !.response = RefreshResp(500, "Internal server error")]
                       ELSE IF outcome = "ClientError" \/ key \notin store
                       THEN [counted EXCEPT !.pc = AfterProbe(version),
                                            !.errors = @ \cup {version}]
                       ELSE [counted EXCEPT !.pc = AfterProbe(version),
                                            !.refreshed_urls = @ \cup {version}]
    /\ UNCHANGED <<users, store, up, nonce, pdel, udel>>
    /\ UNCHANGED batchVars
    /\ UNCHANGED <<img, pool>>

\* (variant: 200 even when no URL was made)
RefreshRespondNoNotFound ==
    /\ pref.pc = "respond"
    /\ pref' = [pref EXCEPT
                  !.pc = "done",
                  !.response =
                     [status |-> 200,
                      kind |-> IF pref.errors = {}
                               THEN "Photo URLs refreshed successfully"
                               ELSE "Photo URLs partially refreshed",
                      images |-> pref.refreshed_urls,
                      errors |-> pref.errors]]
    /\ UNCHANGED <<users, store, up, nonce, pdel, udel, faults>>
    /\ UNCHANGED batchVars
    /\ UNCHANGED <<img, pool>>

\* if not refreshed_urls: 404, else 200 with the URLs and the errors
RefreshRespond ==
    /\ pref.pc = "respond"
    /\ pref' = [pref EXCEPT
                  !.pc = "done",
                  !.response =
                     IF pref.refreshed_urls = {}
                     THEN [RefreshResp(404, "No valid photos found to refresh") EXCEPT
                              !.errors = pref.errors]
                     ELSE [status |-> 200,
                           kind |-> IF pref.errors = {}
                                    THEN "Photo URLs refreshed successfully"
                                    ELSE "Photo URLs partially refreshed",
                           images |-> pref.refreshed_urls,
                           errors |-> pref.errors]]
    /\ UNCHANGED <<users, store, up, nonce, pdel, udel, faults>>
    /\ UNCHANGED batchVars
    /\ UNCHANGED <<img, pool>>

---------------------------------------------------------------------------
(* User delete: handle_user_deletion of user-delete/app.py *)

\* query_params.get('confirm', '').lower()
LowerConfirm(confirm) == IF confirm = "True" THEN "true" ELSE confirm

UserDeleteRequest(sub, target_user_id, confirm, body) ==
    [sub |-> sub, target_user_id |-> target_user_id, confirm |-> confirm, body |-> body]

NoUserDeleteRequest == UserDeleteRequest(NoSub, NoTarget, "", "missing")

\* confirm: "" (absent) | "true" | "True" | "false"
\* body: "missing" | "badjson" | "object" | "nonobject"
UserDeleteRequests ==
    {UserDeleteRequest(s, t, "true", "missing") :
        s \in {NoSub, "u1", "u2"}, t \in {NoTarget, "u1"}}
        \cup {UserDeleteRequest("u1", "u1", c, "missing") : c \in {"", "True", "false"}}
        \cup {UserDeleteRequest("u1", "u1", "true", b) :
                b \in {"badjson", "object", "nonobject"}}

UserDeleteResp(status, kind) ==
    [status |-> status, kind |-> kind, photos_deleted |-> {}, cleanup_errors |-> {}]

NoUserDeleteResponse == UserDeleteResp(0, "none")

\* if not target_user_id: target_user_id = user_id
TargetOf(r) == IF r.target_user_id = NoTarget THEN r.sub ELSE r.target_user_id

\* The checks of the handler before the record is read, in the code's order
UserDeleteShapeCheck(r) ==
    IF r.sub = NoSub THEN UserDeleteResp(500, "Internal server error")
    ELSE IF TargetOf(r) # r.sub
         THEN UserDeleteResp(403, "Unauthorized: You can only delete your own account")
    ELSE NoUserDeleteResponse

\* The checks after the record was found: the confirmation, then the optional body
\* (a body that is JSON but not an object raises at body.get)
ConfirmCheck(r) ==
    IF LowerConfirm(r.confirm) # "true"
    THEN UserDeleteResp(400, "Account deletion requires confirmation")
    ELSE IF r.body = "nonobject" THEN UserDeleteResp(500, "Internal server error")
    ELSE NoUserDeleteResponse

NoUserDelete ==
    [pc |-> "idle", req |-> NoUserDeleteRequest, user |-> NoRecord,
     photos_deleted |-> {}, photo_cleanup_errors |-> {}, cleanup_faults |-> 0,
     calls |-> NoCalls, db |-> [get |-> 0, delete |-> 0], response |-> NoUserDeleteResponse]

\* The handler from its entry to the has_images check
UserDeleteBegin ==
    /\ udel.pc = "idle"
    /\ \E r \in UserDeleteRequests, get_raises \in BOOLEAN :
         LET u == users[TargetOf(r)]
             started == [udel EXCEPT !.req = r]
             read == [started EXCEPT !.db.get = @ + 1]
         IN  /\ get_raises => (UserDeleteShapeCheck(r) = NoUserDeleteResponse /\ FaultsLeft > 0)
             /\ faults' = faults + (IF get_raises THEN 1 ELSE 0)
             /\ udel' =
                  IF UserDeleteShapeCheck(r) # NoUserDeleteResponse
                  THEN [started EXCEPT !.pc = "done", !.response = UserDeleteShapeCheck(r)]
                  ELSE IF get_raises
                  THEN [read EXCEPT !.pc = "done",
                                    !.response = UserDeleteResp(500, "Internal server error")]
                  ELSE IF ~u.exists
                  THEN [read EXCEPT !.pc = "done",
                                    !.response = UserDeleteResp(404, "User not found")]
                  ELSE IF ConfirmCheck(r) # NoUserDeleteResponse
                  THEN [read EXCEPT !.pc = "done", !.user = u,
                                    !.response = ConfirmCheck(r)]
                  ELSE [read EXCEPT !.user = u,
                                    !.pc = IF BucketConfigured /\ HasPhotos(u)
                                           THEN "cleanup" ELSE "record",
                                    !.photo_cleanup_errors =
                                        IF HasPhotos(u) /\ ~BucketConfigured
                                        THEN {"bucket not configured"} ELSE {}]
    /\ UNCHANGED <<users, store, up, nonce, pdel, pref>>
    /\ UNCHANGED batchVars
    /\ UNCHANGED <<img, pool>>

\* delete_user_photos(user_id) of user-delete/app.py: list the prefix (all pages),
\* one delete_objects call for the batch, single deletes only when the bulk call
\* itself raises. The errors are kept in cleanup_result only: the function returns
\* cleanup_result['deleted_files'].
UserDeletePhotos(user_id, objects, list_raises, bulk_raises, bad) ==
    LET all_objects == UnderPrefix(objects, user_id)
        deleted == all_objects \ bad
    IN  IF list_raises
        THEN [deleted_files |-> {}, deletion_errors |-> {"scan"}, objects |-> objects,
              calls |-> [NoCalls EXCEPT !.list = 1]]
        ELSE IF all_objects = {}
        THEN [deleted_files |-> {}, deletion_errors |-> {}, objects |-> objects,
              calls |-> [NoCalls EXCEPT !.list = 1]]
        ELSE [deleted_files |-> deleted, deletion_errors |-> all_objects \cap bad,
              objects |-> objects \ deleted,
              calls |-> [NoCalls EXCEPT !.list = 1, !.bulk = 1,
                                        !.single = IF bulk_raises
                                                   THEN Cardinality(all_objects) ELSE 0]]

\* photos_deleted = delete_user_photos(target_user_id)
UserDeleteCleanup ==
    /\ udel.pc = "cleanup"
    /\ \E f \in CleanupFaults(Refusable(UnderPrefix(store, TargetOf(udel.req)))) :
         LET r == UserDeletePhotos(TargetOf(udel.req), store,
                                   f.list_raises, f.bulk_raises, f.bad)
         IN  /\ store' = r.objects
             /\ faults' = faults + FaultCost(f)
             /\ udel' = [udel EXCEPT !.pc = "record",
                                     !.photos_deleted = r.deleted_files,
                                     !.cleanup_faults = FaultCost(f),
                                     !.calls = AddCalls(@, r.calls)]
    /\ UNCHANGED <<users, up, nonce, pdel, pref>>
    /\ UNCHANGED batchVars
    /\ UNCHANGED <<img, pool>>

\* (variant: a failed object cleanup aborts the deletion)
UserDeleteRecordAbortsOnCleanupError ==
    /\ udel.pc = "record"
    /\ \E delete_raises \in BOOLEAN :
         LET aborted == delete_raises \/ udel.cleanup_faults > 0
         IN  /\ delete_raises => FaultsLeft > 0
             /\ faults' = faults + (IF delete_raises THEN 1 ELSE 0)
             /\ users' = IF aborted THEN users
                         ELSE [users EXCEPT ![TargetOf(udel.req)] = NoRecord]
             /\ udel' = [udel EXCEPT
                           !.db.delete = @ + 1,
                           !.pc = "done",
                           !.response =
                              IF aborted THEN UserDeleteResp(500, "Internal server error")
                              ELSE [status |-> 200,
                                    kind |-> "User account deleted successfully",
                                    photos_deleted |-> udel.photos_deleted,
                                    cleanup_errors |-> udel.photo_cleanup_errors]]
    /\ UNCHANGED <<store, up, nonce, pdel, pref>>
    /\ UNCHANGED batchVars
    /\ UNCHANGED <<img, pool>>

\* user.delete() and the success response
UserDeleteRecord ==
    /\ udel.pc = "record"
    /\ \E delete_raises \in BOOLEAN :
         /\ delete_raises => FaultsLeft > 0
         /\ faults' = faults + (IF delete_raises THEN 1 ELSE 0)
         /\ users' = IF delete_raises THEN users
                     ELSE [users EXCEPT ![TargetOf(udel.req)] = NoRecord]
         /\ udel' = [udel EXCEPT
                       !.db.delete = @ + 1,
                       !.pc = "done",
                       !.response =
                          IF delete_raises THEN UserDeleteResp(500, "Internal server error")
                          ELSE [status |-> 200, kind |-> "User account deleted successfully",
                                photos_deleted |-> udel.photos_deleted,
                                cleanup_errors |-> udel.photo_cleanup_errors]]
    /\ UNCHANGED <<store, up, nonce, pdel, pref>>
    /\ UNCHANGED batchVars
    /\ UNCHANGED <<img, pool>>

---------------------------------------------------------------------------
(* Version derivation: create_image_versions of photo-upload/app.py *)

\* Image sizes tried: the small ones, and those around each target dimension
Sides ==
    (1..MaxSide) \cup {THUMBNAIL_SIZE, STANDARD_SIZE, HIGH_RES_SIZE - 1, HIGH_RES_SIZE,
                       HIGH_RES_SIZE + 1}

\* Pillow modes of a decoded image
Modes == {"RGB", "RGBA", "LA", "L", "P"}

\* RGBA and LA are pasted on a white RGB background; any other mode than RGB and L
\* is converted to RGB
NormalMode(mode) ==
    IF mode \in {"RGBA", "LA"} THEN "RGB"
    ELSE IF mode \notin {"RGB", "L"} THEN "RGB"
    ELSE mode

\* version_configs: the target dimension of each version
TargetSize(version_name) ==
    CASE version_name = "thumbnail" -> THUMBNAIL_SIZE
      [] version_name = "standard" -> STANDARD_SIZE
      [] version_name = "high_res" -> HIGH_RES_SIZE

Min(a, b) == IF a < b THEN a ELSE b

\* (variant: the offsets are not halved)
CropBoxFromFarEdge(width, height) ==
    LET min_dimension == Min(width, height)
        left == width - min_dimension
        top == height - min_dimension
    IN  [left |-> left, top |-> top,
         right |-> left + min_dimension, bottom |-> top + min_dimension]

\* The box of the centered square: (left, top, right, bottom)
CropBox(width, height) ==
    LET min_dimension == Min(width, height)
        left == (width - min_dimension) \div 2
        top == (height - min_dimension) \div 2
    IN  [left |-> left, top |-> top,
         right |-> left + min_dimension, bottom |-> top + min_dimension]

\* Image.crop(box): an image of the box's size
Crop(box) == [width |-> box.right - box.left, height |-> box.bottom - box.top]

\* Image.resize((size, size)): an image of that size, whatever the input's size
Resize(image, size) == [width |-> size, height |-> size]

NoImage == [pc |-> "off", width |-> 0, height |-> 0, mode |-> "RGB", versions |-> <<>>]

\* Image.open and the conversion of the mode
DeriveOpen ==
    /\ img.pc = "open"
    /\ img' = [img EXCEPT !.pc = "versions", !.mode = NormalMode(img.mode)]
    /\ UNCHANGED <<users, store, up, nonce, faults, pool>>
    /\ UNCHANGED batchVars
    /\ UNCHANGED handlerVars

\* One iteration of the loop over version_configs: crop, resize, save as JPEG
DeriveVersion ==
    /\ img.pc = "versions"
    /\ LET version_name == VersionOrder[Len(img.versions) + 1]
           size == TargetSize(version_name)
           box == CropBox(img.width, img.height)
           version_image == Resize(Crop(box), size)
           made == Append(img.versions,
                          [name |-> version_name, box |-> box, cropped |-> Crop(box),
                           width |-> version_image.width,
                           height |-> version_image.height, mode |-> img.mode])
       IN  img' = [img EXCEPT !.versions = made,
                              !.pc = IF Len(made) = Len(VersionOrder) THEN "done"
                                     ELSE "versions"]
    /\ UNCHANGED <<users, store, up, nonce, faults, pool>>
    /\ UNCHANGED batchVars
    /\ UNCHANGED handlerVars

---------------------------------------------------------------------------
(* Batch deletion: the worker pool of process_batch_deletions, with more valid   *)
(* users than workers                                                           *)

\* Numbers of valid users tried
ValidCounts == 1..MaxValid

NoPool == [pc |-> "off", valid |-> 0, futures |-> <<>>, runs |-> <<>>, collected |-> {}]

\* Futures a worker is executing
Executing == {i \in 1..Len(pool.futures) : pool.futures[i] = "running"}

Pending == {i \in 1..Len(pool.futures) : pool.futures[i] = "pending"}

\* (variant: a worker for every task)
WorkerFreeUnbounded == TRUE

\* ThreadPoolExecutor(max_workers=MAX_CONCURRENT_DELETIONS): a worker is idle
WorkerFree == Cardinality(Executing) < MAX_CONCURRENT_DELETIONS

\* future_to_user = {executor.submit(...): user_data for user_data in valid_users}
PoolSubmit ==
    /\ pool.pc = "submit"
    /\ pool' = [pool EXCEPT !.pc = "collect",
                            !.futures = [i \in 1..pool.valid |-> "pending"],
                            !.runs = [i \in 1..pool.valid |-> 0]]
    /\ UNCHANGED <<users, store, up, nonce, faults, img>>
    /\ UNCHANGED batchVars
    /\ UNCHANGED handlerVars

\* An idle worker takes the task submitted first among those waiting
WorkerTake(i) ==
    /\ pool.pc = "collect"
    /\ i \in Pending
    /\ \A j \in Pending : i <= j
    /\ WorkerFree
    /\ pool' = [pool EXCEPT !.futures[i] = "running", !.runs[i] = @ + 1]
    /\ UNCHANGED <<users, store, up, nonce, faults, img>>
    /\ UNCHANGED batchVars
    /\ UNCHANGED handlerVars

\* delete_single_user_with_timeout returns: the future is done
WorkerReturn(i) ==
    /\ pool.pc = "collect"
    /\ i \in Executing
    /\ pool' = [pool EXCEPT !.futures[i] = "finished"]
    /\ UNCHANGED <<users, store, up, nonce, faults, img>>
    /\ UNCHANGED batchVars
    /\ UNCHANGED handlerVars

\* for future in as_completed(future_to_user): one done future at a time; the with
\* block ends when all are collected
PoolCollect(i) ==
    /\ pool.pc = "collect"
    /\ i \in 1..Len(pool.futures)
    /\ pool.futures[i] = "finished"
    /\ i \notin pool.collected
    /\ pool' = [pool EXCEPT !.collected = @ \cup {i},
                            !.pc = IF pool.collected \cup {i} = 1..pool.valid
                                   THEN "done" ELSE "collect"]
    /\ UNCHANGED <<users, store, up, nonce, faults, img>>
    /\ UNCHANGED batchVars
    /\ UNCHANGED handlerVars

---------------------------------------------------------------------------
(* Batch deletion: the specification *)

InitialRemaining ==
    {SAFETY_BUFFER_MS - 1, SAFETY_BUFFER_MS, SAFETY_BUFFER_MS - 1 + ClockStep}

InitialRecords(o) == {NoRecord, EmptyRecord(o), FullRecord(o, 0)}

\* A run exercises one handler; the others take no part in it
Off(locals) == [locals EXCEPT !.pc = "off"]

UploadOff == up = [c \in Calls |-> Off(NoUpload)] /\ nonce = 1

PhotoDeleteOff == pdel = [d \in DeleteCalls |-> Off(NoPhotoDelete)]

RefreshOff == pref = Off(NoRefresh)

UserDeleteOff == udel = Off(NoUserDelete)

DeriveOff == img = NoImage

PoolOff == pool = NoPool

BatchOff ==
    /\ s3calls = [o \in Owners |-> NoCalls]
    /\ dbcalls = [get |-> 0, save |-> 0, delete |-> 0]
    /\ req = BatchRequest(NoSub, "missing", "absent", <<>>, FALSE, FALSE)
    /\ bpc = "idle"
    /\ unique_user_ids = <<>>
    /\ valid_users = <<>>
    /\ validation_errors = <<>>
    /\ task = [o \in Owners |-> NoTask]
    /\ successful_deletions = <<>>
    /\ errors = <<>>
    /\ response = NoResponse
    /\ remaining = 0

InitBatch ==
    /\ req \in BatchRequests
    /\ users \in {t \in [Owners -> UNION {InitialRecords(o) : o \in Owners}] :
                    \A o \in Owners :
                       /\ t[o] \in InitialRecords(o)
                       /\ o \notin SeqRange(req.user_ids) => t[o] = FullRecord(o, 0)}
    /\ store = UNION {IF HasPhotos(users[o]) THEN UploadKeys(o, 0) ELSE {} : o \in Owners}
    /\ s3calls = [o \in Owners |-> NoCalls]
    /\ dbcalls = [get |-> 0, save |-> 0, delete |-> 0]
    /\ bpc = "received"
    /\ unique_user_ids = <<>>
    /\ valid_users = <<>>
    /\ validation_errors = <<>>
    /\ task = [o \in Owners |-> NoTask]
    /\ successful_deletions = <<>>
    /\ errors = <<>>
    /\ response = NoResponse
    /\ remaining \in InitialRemaining
    /\ UploadOff
    /\ PhotoDeleteOff
    /\ RefreshOff
    /\ UserDeleteOff
    /\ faults = 0
    /\ DeriveOff
    /\ PoolOff

NextBatch ==
    \/ HandleBatchDeletion
    \/ \E o \in Owners : TaskStart(o)
    \/ \E o \in Owners : TaskCleanup(o)
    \/ \E o \in Owners : TaskRecord(o)
    \/ \E o \in Owners : Collect(o)
    \/ Complete
    \/ Tick

SpecBatch == InitBatch /\ [][NextBatch]_vars

---------------------------------------------------------------------------
(* Photo upload: the specification *)

\* Objects under the owner's prefix that no record refers to: none, one left by an
\* earlier upload, or MAX_KEYS of them
StrayKeys(o) ==
    {{}, {MakeKey(o, "high_res", -1)},
     {MakeKey(o, "high_res", -1 - i) : i \in 1..MAX_KEYS}}

\* Keys a record refers to
ReferencedKeys(u) ==
    (IF u.standard_s3_key # None THEN {u.standard_s3_key} ELSE {})
        \cup (IF u.high_res_s3_key # None THEN {u.high_res_s3_key} ELSE {})
        \cup (IF u.thumbnail_url # None THEN {UrlKey(u.thumbnail_url)} ELSE {})
        \cup (IF u.image_url # None THEN {UrlKey(u.image_url)} ELSE {})

InitUpload ==
    /\ users \in {t \in [Owners -> UNION {InitialRecords(o) \cup {LegacyRecord(o)} :
                                            o \in Owners}] :
                    /\ t["u1"] \in InitialRecords("u1") \cup {LegacyRecord("u1")}
                    /\ t["u2"] = FullRecord("u2", 0)
                    /\ t["u3"] = NoRecord}
    /\ \E stray \in StrayKeys("u1") :
         /\ Cardinality(stray) > 1 => users["u1"] = FullRecord("u1", 0)
         /\ store = stray \cup UNION {ReferencedKeys(users[o]) : o \in Owners}
    /\ up = [c \in Calls |-> NoUpload]
    /\ nonce = 1
    /\ faults = 0
    /\ BatchOff
    /\ PhotoDeleteOff
    /\ RefreshOff
    /\ UserDeleteOff
    /\ DeriveOff
    /\ PoolOff

NextUpload ==
    \/ \E c \in Calls : UploadBegin(c)
    \/ \E c \in Calls : UploadPut(c)
    \/ \E c \in Calls : UploadGetUser(c)
    \/ \E c \in Calls : UploadCheckNickname(c)
    \/ \E c \in Calls : UploadCleanupKnown(c)
    \/ \E c \in Calls : UploadCleanupScan(c)
    \/ \E c \in Calls : UploadCleanupOrphans(c)
    \/ \E c \in Calls : UploadSave(c)

SpecUpload == InitUpload /\ [][NextUpload]_vars

---------------------------------------------------------------------------
(* Photo delete, photo refresh, user delete: the specifications *)

\* The table and the bucket an asset handler starts from: the owner u1 with any of
\* the records, the owner's referenced objects except those in `missing`, and `stray`
InitOwner(stray, missing) ==
    /\ users \in {t \in [Owners -> UNION {InitialRecords(o) \cup {LegacyRecord(o)} :
                                            o \in Owners}] :
                    /\ t["u1"] \in InitialRecords("u1") \cup {LegacyRecord("u1")}
                    /\ t["u2"] = FullRecord("u2", 0)
                    /\ t["u3"] = NoRecord}
    /\ store = (stray \cup UNION {ReferencedKeys(users[o]) : o \in Owners}) \ missing

FewStrayKeys(o) == {stray \in StrayKeys(o) : Cardinality(stray) <= 1}

InitPhotoDelete ==
    /\ \E stray \in FewStrayKeys("u1") : InitOwner(stray, {})
    /\ pdel = [d \in DeleteCalls |-> NoPhotoDelete]
    /\ faults = 0
    /\ BatchOff
    /\ UploadOff
    /\ RefreshOff
    /\ UserDeleteOff
    /\ DeriveOff
    /\ PoolOff

NextPhotoDelete ==
    \/ \E d \in DeleteCalls : PhotoDeleteBegin(d)
    \/ \E d \in DeleteCalls : PhotoDeleteList(d)
    \/ \E d \in DeleteCalls : PhotoDeleteObjects(d)
    \/ \E d \in DeleteCalls : PhotoDeleteSave(d)

SpecPhotoDelete == InitPhotoDelete /\ [][NextPhotoDelete]_vars

\* Objects of the record that are no longer in the bucket
MissingKeys(o) ==
    SUBSET {MakeKey(o, "thumbnail", 0), MakeKey(o, "standard", 0), MakeKey(o, "high_res", 0)}

InitRefresh ==
    /\ \E missing \in MissingKeys("u1") : InitOwner({}, missing)
    /\ pref = NoRefresh
    /\ faults = 0
    /\ BatchOff
    /\ UploadOff
    /\ PhotoDeleteOff
    /\ UserDeleteOff
    /\ DeriveOff
    /\ PoolOff

NextRefresh ==
    \/ RefreshBegin
    \/ RefreshProbe("standard")
    \/ RefreshProbe("high_res")
    \/ RefreshRespond

SpecRefresh == InitRefresh /\ [][NextRefresh]_vars

InitUserDelete ==
    /\ \E stray \in FewStrayKeys("u1") : InitOwner(stray, {})
    /\ udel = NoUserDelete
    /\ faults = 0
    /\ BatchOff
    /\ UploadOff
    /\ PhotoDeleteOff
    /\ RefreshOff
    /\ DeriveOff
    /\ PoolOff

NextUserDelete ==
    \/ UserDeleteBegin
    \/ UserDeleteCleanup
    \/ UserDeleteRecord

SpecUserDelete == InitUserDelete /\ [][NextUserDelete]_vars

---------------------------------------------------------------------------
(* Version derivation: the specification *)

InitDerive ==
    /\ \E w \in Sides, h \in Sides, m \in Modes :
         img = [NoImage EXCEPT !.pc = "open", !.width = w, !.height = h, !.mode = m]
    /\ users = [o \in Owners |-> NoRecord]
    /\ store = {}
    /\ faults = 0
    /\ BatchOff
    /\ UploadOff
    /\ PhotoDeleteOff
    /\ RefreshOff
    /\ UserDeleteOff
    /\ PoolOff

NextDerive ==
    \/ DeriveOpen
    \/ DeriveVersion

SpecDerive == InitDerive /\ [][NextDerive]_vars

---------------------------------------------------------------------------
(* Batch deletion: the specification of the worker pool *)

InitPool ==
    /\ \E n \in ValidCounts : pool = [NoPool EXCEPT !.pc = "submit", !.valid = n]
    /\ users = [o \in Owners |-> NoRecord]
    /\ store = {}
    /\ faults = 0
    /\ BatchOff
    /\ UploadOff
    /\ PhotoDeleteOff
    /\ RefreshOff
    /\ UserDeleteOff
    /\ DeriveOff

NextPool ==
    \/ PoolSubmit
    \/ \E i \in 1..MaxValid + 1 : WorkerTake(i)
    \/ \E i \in 1..MaxValid + 1 : WorkerReturn(i)
    \/ \E i \in 1..MaxValid + 1 : PoolCollect(i)

SpecPool == InitPool /\ [][NextPool]_vars

---------------------------------------------------------------------------
(* The service: any one of its handlers *)

---------------------------------------------------------------------------
(* Batch deletion while an owner deletes the own account *)

\* The batch handler and the user-delete handler invoked side by side on the same
\* table and bucket: the batch names two owners, one of whom may delete the own
\* account while the batch is running.
InitBatchRace ==
    /\ req \in {r \in BatchRequests : r.user_ids \in {<<"u1", "u2">>, <<"u2", "u3">>}}
    /\ users \in {t \in [Owners -> UNION {InitialRecords(o) : o \in Owners}] :
                    \A o \in Owners :
                       /\ t[o] \in InitialRecords(o)
                       /\ o \notin SeqRange(req.user_ids) => t[o] = FullRecord(o, 0)}
    /\ store = UNION {IF HasPhotos(users[o]) THEN UploadKeys(o, 0) ELSE {} : o \in Owners}
    /\ s3calls = [o \in Owners |-> NoCalls]
    /\ dbcalls = [get |-> 0, save |-> 0, delete |-> 0]
    /\ bpc = "received"
    /\ unique_user_ids = <<>>
    /\ valid_users = <<>>
    /\ validation_errors = <<>>
    /\ task = [o \in Owners |-> NoTask]
    /\ successful_deletions = <<>>
    /\ errors = <<>>
    /\ response = NoResponse
    /\ remaining \in InitialRemaining
    /\ udel = NoUserDelete
    /\ faults = 0
    /\ UploadOff
    /\ PhotoDeleteOff
    /\ RefreshOff
    /\ DeriveOff
    /\ PoolOff

NextBatchRace ==
    \/ NextBatch
    \/ NextUserDelete

SpecBatchRace == InitBatchRace /\ [][NextBatchRace]_vars

InitService ==
    \/ InitBatch
    \/ InitUpload
    \/ InitPhotoDelete
    \/ InitRefresh
    \/ InitUserDelete

NextService ==
    \/ NextBatch
    \/ NextUpload
    \/ NextPhotoDelete
    \/ NextRefresh
    \/ NextUserDelete

SpecService == InitService /\ [][NextService]_vars

---------------------------------------------------------------------------
(* Batch deletion: properties *)

RequestedIds == SeqRange(req.user_ids)

Occurrences(s, o) == Cardinality({i \in 1..Len(s) : s[i].user_id = o})

CodeOf(s, o) == (CHOOSE e \in SeqRange(s) : e.user_id = o).error_code

Validated == bpc # "received" /\ ShapeCheck(req) = NoResponse

JustValidated == Validated /\ \A o \in Owners : task[o].pc \in {"none", "queued"}

Completed == bpc = "done" /\ response.kind = "Batch deletion completed"

Succeeded == {o \in Owners : task[o].success}

NoStoreCalls == \A o \in Owners : s3calls[o] = NoCalls

\* C2: a batch that reached the execution stage answers 200 iff every deduplicated
\* requested owner was deleted, 207 iff some but not all were, 400 iff none was.
C2_ThreeWayStatus ==
    Completed =>
        /\ (response.status = 200) <=> (Cardinality(Succeeded) = Cardinality(RequestedIds))
        /\ (response.status = 207) <=>
              (Cardinality(Succeeded) > 0 /\ Cardinality(Succeeded) < Cardinality(RequestedIds))
        /\ (response.status = 400) <=> (Cardinality(Succeeded) = 0)
        /\ response.successful_count = Cardinality(Succeeded)

C2_Witness ==
    /\ Completed
    /\ response.status = 207
    /\ Len(validation_errors) = 1
    /\ response.successful_count = 1
    /\ response.failed_count = 1

\* C3: after validation every deduplicated owner id is in exactly one of valid_users /
\* validation errors; after execution in exactly one of successful_deletions / errors,
\* and successful_count + failed_count = requested_count.
C3_Partition ==
    /\ Validated =>
          \A o \in Owners :
             Occurrences(valid_users, o) + Occurrences(validation_errors, o)
                = (IF o \in RequestedIds THEN 1 ELSE 0)
    /\ Completed =>
          /\ \A o \in Owners :
                Occurrences(successful_deletions, o)
                   + Occurrences(validation_errors \o errors, o)
                   = (IF o \in RequestedIds THEN 1 ELSE 0)
          /\ response.requested_count = Cardinality(RequestedIds)
          /\ response.successful_count + response.failed_count = response.requested_count

C3_Witness ==
    /\ Completed
    /\ Len(successful_deletions) = 1
    /\ Len(errors) = 1
    /\ errors[1].user_id = valid_users[1].user_id
    /\ Cardinality(RequestedIds) = 2

\* The verdict the rule of the claim gives an id: USER_NOT_FOUND without a record,
\* else UNAUTHORIZED_DELETION for another owner outside test mode, else valid.
RuleVerdict(o) ==
    IF ~users[o].exists THEN "USER_NOT_FOUND"
    ELSE IF ~req.test_mode /\ o # req.sub THEN "UNAUTHORIZED_DELETION"
    ELSE "valid"

GivenVerdict(o) ==
    IF Occurrences(valid_users, o) > 0 THEN "valid" ELSE CodeOf(validation_errors, o)

C5_TimeoutGuard ==
    /\ [][\A o \in Owners :
            (task[o].pc = "queued" /\ task'[o].pc # "queued") =>
               IF remaining < 5000
               THEN /\ task'[o].pc = "finished"
                    /\ ~task'[o].success
                    /\ task'[o].error_code = "TIMEOUT_RISK"
               ELSE task'[o].pc = "running"]_vars
    /\ [](\A o \in Owners :
            task[o].error_code = "TIMEOUT_RISK" =>
               /\ s3calls[o] = NoCalls
               /\ users[o].exists
               /\ task[o].pc = "collected" =>
                     /\ Occurrences(errors, o) = 1
                     /\ CodeOf(errors, o) = "TIMEOUT_RISK"
                     /\ Occurrences(successful_deletions, o) = 0)

C5_Witness ==
    \E o, p \in Owners :
        /\ task[o].pc = "collected"
        /\ task[o].error_code = "TIMEOUT_RISK"
        /\ remaining < 5000
        /\ task[p].success
        /\ task[p].has_photos

\* C6: a failure in one owner's task becomes that owner's error outcome only: every
\* task is run and collected, each owner's outcome is its own task's result, no more
\* owners fail in execution than failures occurred, and the batch answers with the
\* aggregated response.
C6_ErrorIsolation ==
    /\ bpc = "done" /\ Validated /\ valid_users # <<>> => Completed
    /\ Completed =>
          /\ response.status \in {200, 207, 400}
          /\ \A i \in 1..Len(valid_users) :
                LET o == valid_users[i].user_id
                IN  /\ task[o].pc = "collected"
                    /\ Occurrences(successful_deletions, o) = (IF task[o].success THEN 1 ELSE 0)
                    /\ Occurrences(errors, o) = (IF task[o].success THEN 0 ELSE 1)
          /\ Cardinality({o \in Owners : task[o].error_code = "DELETION_ERROR"}) <= faults

C6_Witness ==
    /\ Completed
    /\ \E o, p \in Owners :
          /\ task[o].error_code = "DELETION_ERROR"
          /\ task[p].success
          /\ SubmitIndex(o) < SubmitIndex(p)

\* C7 as stated: a task that ran for more than 30 seconds is reported with
\* TASK_EXECUTION_ERROR.
C7_Original ==
    \A o \in Owners :
        (task[o].pc = "collected" /\ task[o].elapsed > 30 * 1000) =>
            /\ Occurrences(errors, o) = 1
            /\ CodeOf(errors, o) = "TASK_EXECUTION_ERROR"

\* The request shapes C8 names, for an authenticated caller
BadShape ==
    /\ req.sub # NoSub
    /\ \/ req.body \in {"missing", "badjson"}
       \/ req.ids_kind = "notlist"
       \/ Len(req.user_ids) = 0
       \/ Len(req.user_ids) > 50
       \/ ~req.confirm

NoSideEffects ==
    /\ dbcalls = [get |-> 0, save |-> 0, delete |-> 0]
    /\ NoStoreCalls
    /\ \A o \in Owners : task[o].pc = "none"

\* C8 as stated: such a request is rejected with 400 before validation and execution
\* start, without a record read or deleted and without an object-store call.
C8_Original ==
    (BadShape /\ bpc # "received") =>
        /\ bpc = "done"
        /\ response.status = 400
        /\ NoSideEffects

\* C9: when every deduplicated owner fails validation the handler answers 400 with
\* the per-owner validation errors, dispatches no task, issues no object-store call
\* and deletes no record.
C9_AllFailValidation ==
    (Validated /\ valid_users = <<>>) =>
        /\ bpc = "done"
        /\ response.status = 400
        /\ response.kind = "No valid users to delete"
        /\ response.errors = validation_errors
        /\ Len(validation_errors) = Cardinality(RequestedIds)
        /\ \A o \in Owners : task[o].pc = "none"
        /\ NoStoreCalls
        /\ dbcalls.delete = 0

C9_Witness ==
    /\ Validated
    /\ valid_users = <<>>
    /\ bpc = "done"
    /\ Cardinality(RequestedIds) = 2
    /\ \E o, p \in RequestedIds :
          /\ GivenVerdict(o) = "USER_NOT_FOUND"
          /\ GivenVerdict(p) = "UNAUTHORIZED_DELETION"
          /\ HasPhotos(users[p])

---------------------------------------------------------------------------
(* Photo upload: properties *)

OnlyCall(c) == \A b \in Calls \ {c} : up[b].pc = "idle"

Accepted(c) == up[c].pc # "idle" /\ UploadShapeCheck(up[c].req) = NoUploadResponse

\* C1 as stated: when an upload for an owner whose record had populated version
\* fields answers 200, its cleanup deleted none of the three keys it minted, and
\* (no other call being involved) the three keys are in the object store.
C1_Original ==
    \A c \in Calls :
        (up[c].pc = "done" /\ up[c].response.status = 200 /\ HasPhotos(up[c].user)) =>
            /\ up[c].cleanup.deleted_files \cap MintedKeys(c) = {}
            /\ OnlyCall(c) => MintedKeys(c) \subseteq store

\* C10 as stated: an accepted upload without a nickname for an owner without a
\* record, no store call failing, answers 400 having put no object and created no
\* record.
C10_Original ==
    \A c \in Calls :
        (/\ up[c].pc = "done"
         /\ Accepted(c)
         /\ NoNickname(up[c].req.nickname)
         /\ OnlyCall(c)
         /\ ~users[up[c].req.user_id].exists
         /\ faults = 0) =>
            /\ up[c].response.status = 400
            /\ up[c].calls.put = 0
            /\ MintedKeys(c) \cap store = {}


DerivationFails(r) ==
    /\ r.sub # NoSub
    /\ r.sub = r.user_id
    /\ r.body \in {"json", "raw"}
    /\ r.image = "bytes"
    /\ r.size <= MAX_IMAGE_SIZE
    /\ ~r.decodable

\* C11: an upload whose version derivation fails (the image is present, decodes
\* from base64 and is within the size limit, but cannot be processed) answers 400
\* "Failed to process image" having put no object, issued no cleanup call (no
\* list, no delete) and neither read nor written the UserRecord; with no other call
\* in progress the record and the objects are the ones the call found.
C11_DerivationFailure ==
    \A c \in Calls :
        (up[c].pc # "idle" /\ DerivationFails(up[c].req)) =>
            /\ up[c].pc = "done"
            /\ up[c].response.status = 400
            /\ up[c].response.kind = "Failed to process image"
            /\ up[c].calls = NoCalls
            /\ up[c].db = NoDbCalls
            /\ up[c].cleanup = NoCleanup
            /\ OnlyCall(c) => /\ users["u1"] \in InitialRecords("u1") \cup
                                                  {LegacyRecord("u1")}
                              /\ \A k \in store : k[3] <= 0

C11_Witness ==
    \E c \in Calls :
        /\ up[c].pc = "done"
        /\ DerivationFails(up[c].req)
        /\ up[c].response.status = 400
        /\ HasPhotos(users[up[c].req.user_id])


---------------------------------------------------------------------------
(* Asset handlers: properties *)

\* The verified principal of the request differs from the owner in its path
Mismatch(sub, target) == sub # NoSub /\ target # NoTarget /\ sub # target

\* C12: an UploadAsset, DeleteAsset or RefreshAssetUrls request whose verified
\* principal differs from the target owner id is answered 403, and the handler has
\* then made no call at all: it has not read or written the UserRecord and has not
\* listed, probed, put or deleted any stored object.
C12_PrincipalMismatch ==
    /\ \A c \in Calls :
         (up[c].pc \notin {"idle", "off"}
            /\ Mismatch(up[c].req.sub, up[c].req.user_id)) =>
                /\ up[c].pc = "done"
                /\ up[c].response.status = 403
                /\ up[c].calls = NoCalls
                /\ up[c].db = NoDbCalls
    /\ \A d \in DeleteCalls :
         (pdel[d].pc \notin {"idle", "off"}
            /\ Mismatch(pdel[d].req.sub, pdel[d].req.target_user_id)) =>
                /\ pdel[d].pc = "done"
                /\ pdel[d].response.status = 403
                /\ pdel[d].calls = NoCalls
                /\ pdel[d].db = NoDbCalls
    /\ (pref.pc \notin {"idle", "off"}
            /\ Mismatch(pref.req.sub, pref.req.target_user_id)) =>
                /\ pref.pc = "done"
                /\ pref.response.status = 403
                /\ pref.head = 0
                /\ pref.db = NoDbCalls

C12_Witness ==
    \/ \E c \in Calls :
         /\ up[c].pc = "done"
         /\ Mismatch(up[c].req.sub, up[c].req.user_id)
         /\ up[c].response.status = 403
    \/ \E d \in DeleteCalls :
         /\ pdel[d].pc = "done"
         /\ Mismatch(pdel[d].req.sub, pdel[d].req.target_user_id)
         /\ pdel[d].response.status = 403
         /\ HasPhotos(users[pdel[d].req.target_user_id])
    \/ /\ pref.pc = "done"
       /\ Mismatch(pref.req.sub, pref.req.target_user_id)
       /\ pref.response.status = 403
       /\ HasPhotos(users[pref.req.target_user_id])


---------------------------------------------------------------------------
(* Object cleanup: properties *)

\* The cleanup of an upload met an error: one of its calls raised, or the store
\* refused a key
CleanupFailed(c) == up[c].raised # {} \/ up[c].cleanup.deletion_errors # {}

\* C13: object-cleanup errors are not fatal. A cleanup step never ends the
\* operation, whatever fails in it; and when the cleanup met errors, the record step
\* that follows (in which nothing else fails) writes the new record and answers 200
\* for an upload, and deletes the record and reports success for an owner deletion,
\* single or as a task of a batch.
C13_CleanupNonFatal ==
    [][/\ \A c \in Calls :
            /\ up[c].pc \in {"known", "scan", "orphans"} => up'[c].pc # "done"
            /\ (up[c].pc = "save" /\ up'[c].pc = "done" /\ CleanupFailed(c)
                    /\ faults' = faults) =>
                  /\ up'[c].response.status = 200
                  /\ up'[c].response.cleanup = up[c].cleanup
                  /\ users'[up[c].req.user_id] = SavedRecord(c)
       /\ \A o \in Owners :
            /\ task[o].pc = "running" => task'[o].pc \in {"running", "cleaned"}
            /\ (task[o].pc = "cleaned" /\ task'[o].pc = "finished"
                    /\ task[o].cleanup_faults > 0 /\ faults' = faults) =>
                  /\ task'[o].success
                  /\ ~users'[o].exists
       /\ udel.pc = "cleanup" => udel'.pc \in {"cleanup", "record"}
       /\ (udel.pc = "record" /\ udel'.pc = "done" /\ udel.cleanup_faults > 0
               /\ faults' = faults) =>
             /\ udel'.response.status = 200
             /\ ~users'[TargetOf(udel.req)].exists
      ]_vars

C13_Witness ==
    \/ \E c \in Calls :
         /\ up[c].pc = "done"
         /\ CleanupFailed(c)
         /\ up[c].response.status = 200
         /\ up[c].response.cleanup.deletion_errors # {}
    \/ \E o \in Owners :
         /\ task[o].pc = "finished"
         /\ task[o].cleanup_faults > 0
         /\ task[o].success
         /\ ~users[o].exists
    \/ /\ udel.pc = "done"
       /\ udel.cleanup_faults > 0
       /\ udel.response.status = 200
       /\ ~users[TargetOf(udel.req)].exists


\* The cleanup of call c has been entered (its strategy is chosen)
CleanupEntered(c) == up[c].cleanup.strategy # "none"

\* C14: when the upload's cleanup is run for an owner with no UserRecord, or with a
\* record that has none of the four version fields populated, it issues no list
\* call and no delete call (bulk or single) and its result is empty, with strategy
\* "skip_no_photos".
C14_SkipStrategy ==
    \A c \in Calls :
        (CleanupEntered(c) /\ ~(up[c].user.exists /\ HasPhotos(up[c].user))) =>
            /\ up[c].cleanup = [NoCleanup EXCEPT !.strategy = "skip_no_photos"]
            /\ up[c].calls.list = 0
            /\ up[c].calls.bulk = 0
            /\ up[c].calls.single = 0
            /\ up[c].orphaned = {}

C14_Witness ==
    /\ \E c \in Calls :
         /\ up[c].pc = "done"
         /\ up[c].response.status = 200
         /\ up[c].user = EmptyRecord("u1")
         /\ UnderPrefix(store, "u1") \ MintedKeys(c) # {}
         /\ up[c].cleanup.strategy = "skip_no_photos"


\* The cleanup of call c is over
CleanupOver(c) == CleanupEntered(c) /\ up[c].pc \in {"save", "done"}

Populated(c) == up[c].user.exists /\ HasPhotos(up[c].user)

PreviouslyReferenced(u) ==
    ({u.standard_s3_key, u.high_res_s3_key} \ {None})
        \cup {UrlKey(url) : url \in {v \in {u.thumbnail_url, u.image_url} \ {None} :
                                        IsS3Url(v)}}

RetriesOwed(c) ==
    (IF "known" \in up[c].raised THEN Len(KnownKeys(up[c].user)) ELSE 0)
        + (IF "orphans" \in up[c].raised THEN Cardinality(up[c].orphaned) ELSE 0)

\* C17 as stated: whenever a bulk delete of the upload's cleanup raised, be it the
\* one of the known keys or the one of the orphaned keys, every key of that batch
\* was retried with a single-object delete.
C17_Original ==
    \A c \in Calls : CleanupOver(c) => up[c].calls.single = RetriesOwed(c)


\* C18 as stated: when a bulk delete of the upload's cleanup returned normally but
\* reported some keys as failed, each such key was retried with a single-object
\* delete (so the call issued at least as many single-object deletes as it reports
\* failed keys).
C18_Original ==
    \A c \in Calls :
        (CleanupOver(c) /\ up[c].cleanup.deletion_errors # {} /\ up[c].raised = {}) =>
            up[c].calls.single >= Cardinality(up[c].cleanup.deletion_errors)


---------------------------------------------------------------------------
(* Photo delete: properties *)

\* Call d is a request of owner o for their own photos
OwnRequest(r, o) == r.sub = o /\ r.target_user_id = o

\* A DeleteAsset of owner o has completed with success
DeletedBefore(o) ==
    \E b \in DeleteCalls :
        /\ pdel[b].pc = "done"
        /\ OwnRequest(pdel[b].req, o)
        /\ pdel[b].response.status = 200

\* C19: a DeleteAsset that arrives after a DeleteAsset of the same owner has
\* completed (and whose record read does not fail) is answered at once with 200 and
\* zero deleted keys; it issues no object-store call and no save, and the record and
\* the stored objects are as they were.
C19_Idempotent ==
    [][\A d \in DeleteCalls, o \in Owners :
          (/\ pdel[d].pc = "idle"
           /\ pdel'[d].pc # "idle"
           /\ OwnRequest(pdel'[d].req, o)
           /\ DeletedBefore(o)
           /\ faults' = faults) =>
              /\ pdel'[d].pc = "done"
              /\ pdel'[d].response.status = 200
              /\ pdel'[d].response.deleted_files = {}
              /\ pdel'[d].response.deletion_errors = {}
              /\ pdel'[d].calls = NoCalls
              /\ pdel'[d].db.save = 0
              /\ users' = users
              /\ store' = store
      ]_vars

C19_Witness ==
    \E b, d \in DeleteCalls :
        /\ b < d
        /\ pdel[b].pc = "done"
        /\ OwnRequest(pdel[b].req, "u1")
        /\ pdel[b].response.status = 200
        /\ pdel[b].response.deleted_files # {}
        /\ pdel[d].pc = "done"
        /\ OwnRequest(pdel[d].req, "u1")
        /\ pdel[d].response.status = 200
        /\ pdel[d].response.deleted_files = {}
        /\ pdel[d].calls = NoCalls
        /\ ~HasPhotos(users["u1"])


\* The record store failed the save of call d (a failure of another dependency)
SaveFailed(d) == pdel[d].db.save = 1 /\ pdel[d].response.status = 500

\* C20 as stated: a DeleteAsset of the owner that read a record with populated
\* version fields ends with 200 and with the four asset fields of the record empty,
\* whatever the listing and the deletes of the object store did, and its response
\* carries the keys whose delete failed.
C20_Original ==
    \A d \in DeleteCalls :
        (pdel[d].pc = "done" /\ HasPhotos(pdel[d].user) /\ ~SaveFailed(d)) =>
            /\ pdel[d].response.status = 200
            /\ ~HasPhotos(users[pdel[d].req.target_user_id])
            /\ pdel[d].response.deletion_errors = pdel[d].deletion_errors


---------------------------------------------------------------------------
(* Photo refresh: properties *)

ProtectedVersions == {"standard", "high_res"}

\* The refresh has answered after probing the protected versions
Probed == pref.pc = "done" /\ pref.user.exists /\ HasPhotos(pref.user)
            /\ pref.response.status # 500

\* C21: the refresh probes each protected key of the record on its own: a key that
\* is not in the store gives an error entry for its version, whatever happened to
\* the other version; a key that is in the store gives a URL for its version (when
\* no call of the store fails); every version with a key gives exactly one of the
\* two; and the answer is 200 exactly when at least one URL is returned.
C21_PartialSuccess ==
    Probed =>
        /\ \A v \in ProtectedVersions :
             LET key == VersionKey(pref.user, v)
             IN  /\ key = None => v \notin pref.response.images \cup pref.response.errors
                 /\ key # None =>
                      /\ (v \in pref.response.images) # (v \in pref.response.errors)
                      /\ key \notin store => v \in pref.response.errors
                      /\ (key \in store /\ faults = 0) => v \in pref.response.images
        /\ pref.response.status = 200 <=> pref.response.images # {}
        /\ pref.response.status \in {200, 404}

C21_Witness ==
    /\ Probed
    /\ pref.response.status = 200
    /\ VersionKey(pref.user, "standard") \notin store
    /\ VersionKey(pref.user, "high_res") \in store
    /\ "standard" \in pref.response.errors
    /\ "high_res" \in pref.response.images


\* The owner's own refresh has answered, and not with a server error
Answered ==
    /\ pref.pc = "done"
    /\ OwnRequest(pref.req, pref.req.target_user_id)
    /\ pref.response.status # 500

RefreshedOwner == users[pref.req.target_user_id]

Issuable(u) ==
    \/ u.thumbnail_url # None
    \/ \E v \in ProtectedVersions : VersionKey(u, v) # None /\ VersionKey(u, v) \in store

---------------------------------------------------------------------------
(* Batch deletion: further properties *)

\* Position of the first occurrence of id o in the list s
FirstSeen(s, o) == CHOOSE i \in 1..Len(s) : s[i] = o /\ \A j \in 1..(i - 1) : s[j] # o

\* Entries of the validation result (valid users and validation errors) for id o
Verdicts(o) == Occurrences(valid_users, o) + Occurrences(validation_errors, o)

\* C23: before validation the requested ids are collapsed to one occurrence each,
\* in first-seen order: unique_user_ids holds every requested id exactly once, and
\* two ids stand in it in the order of their first occurrences in the request.
\* Each distinct id is then looked up once and gets exactly one verdict, and a
\* valid one gets exactly one deletion task (one record delete at most).
C23_Dedup ==
    Validated =>
        /\ SeqRange(unique_user_ids) = RequestedIds
        /\ Len(unique_user_ids) = Cardinality(RequestedIds)
        /\ \A i, j \in 1..Len(unique_user_ids) :
              i < j => FirstSeen(req.user_ids, unique_user_ids[i])
                          < FirstSeen(req.user_ids, unique_user_ids[j])
        /\ \A o \in RequestedIds : Verdicts(o) = 1
        /\ \A o \in Owners \ RequestedIds : Verdicts(o) = 0
        /\ JustValidated => dbcalls.get = Cardinality(RequestedIds)
        /\ Len(valid_users) = Cardinality({o \in Owners : task[o].pc # "none"})
        /\ dbcalls.delete <= Len(valid_users)

C23_Witness ==
    /\ Completed
    /\ req.user_ids = <<"u2", "u1", "u2">>
    /\ unique_user_ids = <<"u2", "u1">>
    /\ Len(valid_users) = 2
    /\ dbcalls.delete = 2


---------------------------------------------------------------------------
(* Version derivation: properties *)

\* C24: for every decodable image of width w >= 1 and height h >= 1 the derivation
\* makes exactly the versions thumbnail, standard and high_res, in that order. Each
\* is cropped with side = min(w, h) at the offsets ((w - side) div 2,
\* (h - side) div 2), so that the crop box is a square lying inside the image, and
\* each output has width = height = the target dimension of its version.
C24_Derive ==
    /\ \A i \in 1..Len(img.versions) :
         LET v == img.versions[i]
             side == IF img.width < img.height THEN img.width ELSE img.height
         IN  /\ v.name = VersionOrder[i]
             /\ v.box.left = (img.width - side) \div 2
             /\ v.box.top = (img.height - side) \div 2
             /\ v.box.right - v.box.left = side
             /\ v.box.bottom - v.box.top = side
             /\ 0 <= v.box.left /\ v.box.right <= img.width
             /\ 0 <= v.box.top /\ v.box.bottom <= img.height
             /\ v.cropped.width = side /\ v.cropped.height = side
             /\ v.width = TargetSize(v.name)
             /\ v.height = TargetSize(v.name)
             /\ v.mode \in {"RGB", "L"}
    /\ img.pc = "done" =>
         /\ Len(img.versions) = 3
         /\ {img.versions[i].name : i \in 1..3} = Versions

C24_Witness ==
    /\ img.pc = "done"
    /\ img.width = HIGH_RES_SIZE + 1
    /\ img.height = 3
    /\ Len(img.versions) = 3
    /\ img.versions[1].box = [left |-> 399, top |-> 0, right |-> 402, bottom |-> 3]
    /\ img.versions[3].width = HIGH_RES_SIZE


---------------------------------------------------------------------------
(* Photo upload: further properties *)

\* The record u holds the complete key set of the upload with timestamp n
HoldsKeysOf(u, o, n) ==
    /\ u.thumbnail_url = PublicUrl(MakeKey(o, "thumbnail", n))
    /\ u.image_url = PublicUrl(MakeKey(o, "thumbnail", n))
    /\ u.standard_s3_key = MakeKey(o, "standard", n)
    /\ u.high_res_s3_key = MakeKey(o, "high_res", n)

BothUploaded ==
    /\ \A c \in Calls : up[c].pc = "done" /\ up[c].response.status = 200
    /\ \A b, c \in Calls : up[b].req.user_id = up[c].req.user_id

\* C25: when an upload writes the record, the record holds the complete key set of
\* that upload from then on until the next write; so after two interleaved uploads
\* of one owner that both answered 200, the record holds the keys of exactly one of
\* them, the one that wrote last, and never a mixture of the two.
C25_LastWriterWins ==
    [][/\ \A c \in Calls :
            (up[c].pc = "save" /\ up'[c].pc = "done" /\ up'[c].response.status = 200) =>
                HoldsKeysOf(users'[up[c].req.user_id], up[c].req.user_id, up[c].n)
       /\ BothUploaded' =>
            LET o == up'[1].req.user_id
                holders == {c \in Calls : HoldsKeysOf(users'[o], o, up'[c].n)}
            IN  Cardinality(holders) = 1
      ]_vars

\* The two uploads overlapped: the one that wrote last had read the record before
\* the other wrote it
C25_Witness ==
    /\ BothUploaded
    /\ HoldsKeysOf(users["u1"], "u1", up[1].n)
    /\ up[1].user = FullRecord("u1", 0)
    /\ up[2].user = FullRecord("u1", 0)


---------------------------------------------------------------------------
(* Batch deletion: properties of the worker pool *)

\* C26: in the executing stage one deletion task is submitted per valid user and
\* each is run exactly once; at no time are more than MAX_CONCURRENT_DELETIONS (5)
\* of the tasks of the batch running.
C26_PoolBound ==
    /\ Cardinality(Executing) <= MAX_CONCURRENT_DELETIONS
    /\ pool.pc \in {"collect", "done"} =>
         /\ Len(pool.futures) = pool.valid
         /\ \A i \in 1..pool.valid :
              /\ pool.runs[i] <= 1
              /\ pool.runs[i] = 1 <=> pool.futures[i] # "pending"
    /\ pool.pc = "done" =>
         \A i \in 1..pool.valid : pool.runs[i] = 1 /\ pool.futures[i] = "finished"

C26_Witness ==
    /\ pool.pc = "collect"
    /\ pool.valid > MAX_CONCURRENT_DELETIONS
    /\ Cardinality(Executing) = MAX_CONCURRENT_DELETIONS
    /\ Pending # {}


\* The first MAX_KEYS keys under the owner's prefix, in the order of the listing
FirstKeys(objects, o) ==
    LET all == {k \in objects : k[1] = o}
    IN  {k \in all : Cardinality({j \in all : KeyLess(j, k)}) < MAX_KEYS}

\* Call c lists the prefix in this step, and the listing succeeds
Scans(c) == up[c].pc = "scan" /\ up'[c].pc # "scan" /\ "list" \notin up'[c].raised

\* Call c issues the bulk delete of the orphaned keys in this step
DeletesOrphans(c) == up[c].pc = "orphans" /\ up'[c].pc # "orphans"

\* C27 as stated: the keys the scan hands to the bulk delete are exactly the listed
\* keys that are not in the targeted set (the known keys of the record).
C27_Original ==
    [][\A c \in Calls :
          Scans(c) =>
              up'[c].orphaned = FirstKeys(store, up[c].req.user_id)
                                    \ SeqRange(KnownKeys(up[c].user))
      ]_vars

\* C27, amended: after the targeted deletion the cleanup issues one list call on
\* the owner's prefix, takes at most MAX_KEYS (100) keys, the first ones in the
\* order of the listing, and lists no further page; the keys it hands to one bulk
\* delete are exactly the listed keys that are not among those already deleted
\* (a known key whose delete failed is handed over again); that bulk delete removes
\* nothing else, and removes all of them when the store refuses none.
C27_BoundedScan ==
    [][\A c \in Calls :
          /\ up'[c].calls.list <= 1
          /\ up[c].pc = "scan" /\ up'[c].pc # "scan" => up'[c].calls.list = 1
          /\ Scans(c) =>
               /\ up'[c].orphaned = FirstKeys(store, up[c].req.user_id)
                                        \ up[c].cleanup.deleted_files
               /\ Cardinality(up'[c].orphaned) <= MAX_KEYS
               /\ up'[c].pc = IF up'[c].orphaned = {} THEN "save" ELSE "orphans"
               /\ up'[c].calls.bulk = up[c].calls.bulk
               /\ store' = store
          /\ DeletesOrphans(c) =>
               /\ up'[c].calls.bulk = up[c].calls.bulk + 1
               /\ up'[c].calls.single = up[c].calls.single
               /\ up'[c].calls.list = 1
               /\ store \ store' \subseteq up[c].orphaned
               /\ faults' = faults => store' = store \ up[c].orphaned
      ]_vars

\* A listing cut at MAX_KEYS: keys of the owner were left out and stay in the store
C27_Witness ==
    \E c \in Calls :
        /\ up[c].pc = "done"
        /\ up[c].response.status = 200
        /\ Cardinality(up[c].orphaned) = MAX_KEYS
        /\ up[c].calls.list = 1
        /\ up[c].calls.bulk = 2
        /\ UnderPrefix(store, up[c].req.user_id) # {}
        /\ up[c].orphaned \cap store = {}


\* No upload is in flight, and every call made so far was made for owner o
Quiescent(o) ==
    \A c \in Calls : \/ up[c].pc = "idle"
                     \/ up[c].pc = "done" /\ up[c].req.user_id = o

\* The keys the three version fields of a record refer to
VersionKeys(u) ==
    (IF u.standard_s3_key # None THEN {u.standard_s3_key} ELSE {})
        \cup (IF u.high_res_s3_key # None THEN {u.high_res_s3_key} ELSE {})
        \cup (IF u.thumbnail_url # None THEN {UrlKey(u.thumbnail_url)} ELSE {})

\* C28 as stated: with no operation in flight, after any sequence of uploads for
\* one owner during which no store call failed, every key the owner's record
\* references (standard_s3_key, high_res_s3_key, the key in thumbnail_url) names an
\* object that exists in the object store.
C28_Original ==
    (Quiescent("u1") /\ faults = 0) => VersionKeys(users["u1"]) \subseteq store


\* The task of owner o does its record step (User.get, user.delete) in this step
RecordStep(o) == task[o].pc = "cleaned" /\ task'[o].pc = "finished"

PutFailed(c) == up[c].response.kind = "Failed to upload image"

\* C30: when a put or a presign of an upload fails, the call ends at once with 500:
\* it has run no cleanup (no list and no delete call), has not read or written the
\* record store, the failing step leaves every record as it was and removes no
\* object; with no other call involved, every record still has all the objects it
\* references and the owner's record references none of the call's keys.
C30_PutFailure ==
    [][\A c \in Calls :
          /\ (up[c].pc = "put" /\ PutFailed(c)') =>
                /\ up'[c].pc = "done"
                /\ users' = users
                /\ store \subseteq store'
          /\ PutFailed(c)' =>
                /\ up'[c].pc = "done"
                /\ up'[c].response.status = 500
                /\ up'[c].cleanup = NoCleanup
                /\ up'[c].calls.list = 0
                /\ up'[c].calls.bulk = 0
                /\ up'[c].calls.single = 0
                /\ up'[c].db = NoDbCalls
                /\ OnlyCall(c)' =>
                      /\ \A o \in Owners : ReferencedKeys(users'[o]) \subseteq store'
                      /\ ReferencedKeys(users'[up'[c].req.user_id])
                            \cap UploadKeys(up'[c].req.user_id, up'[c].n) = {}
      ]_vars

\* The call failed after two of its objects were stored, for an owner with a full
\* record: the record and the objects it references are as before
C30_Witness ==
    \E c \in Calls :
        /\ up[c].pc = "done"
        /\ PutFailed(c)
        /\ OnlyCall(c)
        /\ up[c].puts = 2
        /\ users[up[c].req.user_id] = FullRecord(up[c].req.user_id, 0)
        /\ UploadKeys(up[c].req.user_id, 0) \subseteq store

====
